---- MODULE Spec2Model ----
(***************************************************************************)
(* Authoritative synchronization core of the collaborative drawing         *)
(* platform: the per-room stroke store (DrawingState), the room            *)
(* membership manager (RoomManager) and the socket gateway handlers of     *)
(* server.ts that drive them, and the browser client (WebSocketManager,    *)
(* CanvasManager, PerformanceMonitor) with the socket between the two.     *)
(***************************************************************************)
EXTENDS Integers, Sequences, FiniteSets, TLC

VARIABLES
    conn,           \* socket lifecycle of each connection: "idle", "open", "closed"
    currentRoom,    \* per-socket closure variable currentRoom: <<>> (null) or <<roomId>>
    socketRooms,    \* per-socket socket.rooms of socket.io: the rooms the socket is in
    rooms,          \* RoomManager.rooms: roomId -> Map userId -> User
    colorIndex,     \* RoomManager.colorIndex
    drawingStates,  \* server.ts drawingStates: roomId -> DrawingState
    emitted,        \* messages emitted by the last handler, in order
    last,           \* store operation run by the last handler, and the store before it
    roundTrip,      \* an undo, or an undo then a redo, just run: the store before the undo
    log,            \* the drawing events accepted so far, as a recorder that is on or off
    client,         \* the WebSocketManager of one browser client
    wire,           \* the clock of that client and what its last handler did
    net             \* the socket of that client: its connection and the messages in flight

serverVars == <<conn, currentRoom, socketRooms, rooms, colorIndex, drawingStates, emitted, last, roundTrip, log>>
clientVars == <<client, wire>>
vars == <<conn, currentRoom, socketRooms, rooms, colorIndex, drawingStates, emitted, last, roundTrip, log,
          client, wire, net>>

----------------------------------------------------------------------------
\* Bounds of the model

MaxHistory == 2     \* longest history a draw-end may produce
MaxPoints == 2      \* most points a draw-move may give a stroke
MaxJoins == 3       \* cap on RoomManager.colorIndex
MaxRoomsJoins == 2  \* the same cap where sockets join rooms of any id
MaxPath == 102      \* longest pointer path of one stroke, in pointer events
MaxQueued == 2      \* most events queued while offline, where the capacity is not at stake
MaxTicks == 12      \* how long the clock runs, in ticks
MaxInFlight == 2    \* most messages in flight when one more is caused
MaxStrokes == 2     \* cap on the strokes that the client starts
MaxStarts == 1      \* the same cap where the client is composed with the gateway
MaxLatency == 2     \* how long the clock runs while pings are on their way, in ticks

Conns == {"A", "B"}
Uuids == {"u1"}

----------------------------------------------------------------------------
\* JavaScript values of inbound payload fields

Num(n) == [t |-> "number", n |-> n, s |-> ""]
NaNValue == [t |-> "nan", n |-> 0, s |-> ""]
Str(s) == [t |-> "string", n |-> 0, s |-> s]
Undefined == [t |-> "undefined", n |-> 0, s |-> ""]

TypeOf(v) == IF v.t = "nan" THEN "number" ELSE v.t
IsNaN(v) == v.t \in {"nan", "undefined"}
Truthy(v) ==
    CASE v.t = "number" -> v.n # 0
      [] v.t = "string" -> v.s # ""
      [] OTHER -> FALSE

\* The value itself, for a value that is a string or a number
JsValue(v) == IF v.t = "string" THEN v.s ELSE v.n

\* v < k and v > k for a value v of type number: both are false when v is NaN
LessThan(v, k) == v.t = "number" /\ v.n < k
GreaterThan(v, k) == v.t = "number" /\ v.n > k

\* Option values: <<>> is null/undefined, <<v>> is v
Some(v) == <<v>>
None == <<>>

----------------------------------------------------------------------------
\* JavaScript Map, kept in insertion order as a sequence of entries

MapHas(m, k) == \E i \in DOMAIN m : m[i].k = k
MapIndex(m, k) == CHOOSE i \in DOMAIN m : m[i].k = k
MapGet(m, k) == IF MapHas(m, k) THEN Some(m[MapIndex(m, k)].v) ELSE None
MapSet(m, k, v) ==
    IF MapHas(m, k)
    THEN [m EXCEPT ![MapIndex(m, k)] = [k |-> k, v |-> v]]
    ELSE Append(m, [k |-> k, v |-> v])
MapDelete(m, k) ==
    IF MapHas(m, k)
    THEN LET i == MapIndex(m, k)
         IN  SubSeq(m, 1, i - 1) \o SubSeq(m, i + 1, Len(m))
    ELSE m
MapKeys(m) == {m[i].k : i \in DOMAIN m}
MapValues(m) == [i \in DOMAIN m |-> m[i].v]

----------------------------------------------------------------------------
\* DrawingState (drawing-state.ts)

NewDrawingState ==
    [strokes |-> <<>>, history |-> <<>>, undoneStrokes |-> <<>>, currentStrokes |-> <<>>]

\* Each store operation yields the store after it and the value it returns.
\* The values of Date.now() (a point's timestamp, startTime, endTime) are written
\* and never read by the server; a stroke keeps only whether endTime is set.

startStroke(ds, userId, data, uuid) ==
    LET strokeId == IF Truthy(data.strokeId) THEN JsValue(data.strokeId) ELSE uuid
        stroke == [id |-> strokeId, userId |-> userId,
                   points |-> <<[x |-> data.x, y |-> data.y]>>,
                   color |-> data.color, lineWidth |-> data.lineWidth,
                   tool |-> data.tool, ended |-> FALSE]
    IN  [ds |-> [ds EXCEPT !.currentStrokes = MapSet(@, strokeId, stroke)],
         ret |-> strokeId]

MutAddPointToCompleted(ds, strokeId, x, y) ==
    LET stroke == MapGet(ds.currentStrokes, strokeId)
        done == MapGet(ds.strokes, strokeId)
    IN  IF stroke # None
        THEN [ds |-> [ds EXCEPT !.currentStrokes =
                        MapSet(@, strokeId,
                               [stroke[1] EXCEPT !.points =
                                   Append(@, [x |-> x, y |-> y])])],
              ret |-> None]
        ELSE IF done # None
        THEN [ds |-> [ds EXCEPT !.strokes =
                        MapSet(@, strokeId,
                               [done[1] EXCEPT !.points =
                                   Append(@, [x |-> x, y |-> y])])],
              ret |-> None]
        ELSE [ds |-> ds, ret |-> None]

addPoint(ds, strokeId, x, y) ==
    LET stroke == MapGet(ds.currentStrokes, strokeId)
    IN  IF stroke # None
        THEN [ds |-> [ds EXCEPT !.currentStrokes =
                        MapSet(@, strokeId,
                               [stroke[1] EXCEPT !.points =
                                   Append(@, [x |-> x, y |-> y])])],
              ret |-> None]
        ELSE [ds |-> ds, ret |-> None]

MutEndStrokeKeepRedo(ds, strokeId) ==
    LET stroke == MapGet(ds.currentStrokes, strokeId)
    IN  IF stroke # None
        THEN [ds |-> [ds EXCEPT
                        !.strokes = MapSet(@, strokeId, [stroke[1] EXCEPT !.ended = TRUE]),
                        !.history = Append(@, strokeId),
                        !.currentStrokes = MapDelete(@, strokeId)],
              ret |-> None]
        ELSE [ds |-> ds, ret |-> None]

MutEndStrokeAlwaysClear(ds, strokeId) ==
    LET stroke == MapGet(ds.currentStrokes, strokeId)
    IN  IF stroke # None
        THEN [ds |-> [ds EXCEPT
                        !.strokes = MapSet(@, strokeId, [stroke[1] EXCEPT !.ended = TRUE]),
                        !.history = Append(@, strokeId),
                        !.currentStrokes = MapDelete(@, strokeId),
                        !.undoneStrokes = <<>>],
              ret |-> None]
        ELSE [ds |-> [ds EXCEPT !.undoneStrokes = <<>>], ret |-> None]

MutEndStrokePrepend(ds, strokeId) ==
    LET stroke == MapGet(ds.currentStrokes, strokeId)
    IN  IF stroke # None
        THEN [ds |-> [ds EXCEPT
                        !.strokes = MapSet(@, strokeId, [stroke[1] EXCEPT !.ended = TRUE]),
                        !.history = <<strokeId>> \o @,
                        !.currentStrokes = MapDelete(@, strokeId),
                        !.undoneStrokes = <<>>],
              ret |-> None]
        ELSE [ds |-> ds, ret |-> None]

endStroke(ds, strokeId) ==
    LET stroke == MapGet(ds.currentStrokes, strokeId)
    IN  IF stroke # None
        THEN [ds |-> [ds EXCEPT
                        !.strokes = MapSet(@, strokeId, [stroke[1] EXCEPT !.ended = TRUE]),
                        !.history = Append(@, strokeId),
                        !.currentStrokes = MapDelete(@, strokeId),
                        !.undoneStrokes = <<>>],
              ret |-> None]
        ELSE [ds |-> ds, ret |-> None]

MutUndoEmptyClearsRedo(ds) ==
    LET n == Len(ds.history)
    IN  IF n = 0
        THEN [ds |-> [ds EXCEPT !.undoneStrokes = <<>>], ret |-> None]
        ELSE [ds |-> [ds EXCEPT !.history = SubSeq(@, 1, n - 1),
                                !.undoneStrokes = Append(@, ds.history[n])],
              ret |-> MapGet(ds.strokes, ds.history[n])]

MutUndoHead(ds) ==
    LET n == Len(ds.history)
    IN  IF n = 0
        THEN [ds |-> ds, ret |-> None]
        ELSE [ds |-> [ds EXCEPT !.history = Tail(@),
                                !.undoneStrokes = Append(@, ds.history[1])],
              ret |-> MapGet(ds.strokes, ds.history[1])]

MutUndoDropsActive(ds) ==
    LET n == Len(ds.history)
    IN  IF n = 0
        THEN [ds |-> ds, ret |-> None]
        ELSE LET strokeId == ds.history[n]
                 popped == [ds EXCEPT !.history = SubSeq(@, 1, n - 1),
                                      !.currentStrokes = MapDelete(@, strokeId)]
                 stroke == MapGet(ds.strokes, strokeId)
             IN  IF stroke # None
                 THEN [ds |-> [popped EXCEPT !.undoneStrokes = Append(@, strokeId)],
                       ret |-> stroke]
                 ELSE [ds |-> popped, ret |-> None]

MutUndoForgetsStroke(ds) ==
    LET n == Len(ds.history)
    IN  IF n = 0
        THEN [ds |-> ds, ret |-> None]
        ELSE LET strokeId == ds.history[n]
                 popped == [ds EXCEPT !.history = SubSeq(@, 1, n - 1),
                                      !.strokes = MapDelete(@, strokeId)]
                 stroke == MapGet(ds.strokes, strokeId)
             IN  IF stroke # None
                 THEN [ds |-> [popped EXCEPT !.undoneStrokes = Append(@, strokeId)],
                       ret |-> stroke]
                 ELSE [ds |-> popped, ret |-> None]

undo(ds) ==
    LET n == Len(ds.history)
    IN  IF n = 0
        THEN [ds |-> ds, ret |-> None]
        ELSE LET strokeId == ds.history[n]
                 popped == [ds EXCEPT !.history = SubSeq(@, 1, n - 1)]
                 stroke == MapGet(ds.strokes, strokeId)
             IN  IF stroke # None
                 THEN [ds |-> [popped EXCEPT !.undoneStrokes = Append(@, strokeId)],
                       ret |-> stroke]
                 ELSE [ds |-> popped, ret |-> None]

MutRedoHead(ds) ==
    LET n == Len(ds.undoneStrokes)
    IN  IF n = 0
        THEN [ds |-> ds, ret |-> None]
        ELSE [ds |-> [ds EXCEPT !.undoneStrokes = Tail(@),
                                !.history = Append(@, ds.undoneStrokes[1])],
              ret |-> MapGet(ds.strokes, ds.undoneStrokes[1])]

MutRedoFront(ds) ==
    LET n == Len(ds.undoneStrokes)
    IN  IF n = 0
        THEN [ds |-> ds, ret |-> None]
        ELSE [ds |-> [ds EXCEPT !.undoneStrokes = SubSeq(@, 1, n - 1),
                                !.history = <<ds.undoneStrokes[n]>> \o @],
              ret |-> MapGet(ds.strokes, ds.undoneStrokes[n])]

redo(ds) ==
    LET n == Len(ds.undoneStrokes)
    IN  IF n = 0
        THEN [ds |-> ds, ret |-> None]
        ELSE LET strokeId == ds.undoneStrokes[n]
                 popped == [ds EXCEPT !.undoneStrokes = SubSeq(@, 1, n - 1)]
                 stroke == MapGet(ds.strokes, strokeId)
             IN  IF stroke # None
                 THEN [ds |-> [popped EXCEPT !.history = Append(@, strokeId)],
                       ret |-> stroke]
                 ELSE [ds |-> popped, ret |-> None]

RECURSIVE HistoryStrokes(_, _)
HistoryStrokes(ds, h) ==
    IF h = <<>> THEN <<>>
    ELSE MapGet(ds.strokes, Head(h)) \o HistoryStrokes(ds, Tail(h))

getHistory(ds) == HistoryStrokes(ds, ds.history)

getCurrentState(ds) == MapValues(ds.strokes)

\* removeStroke deletes the stroke and its first occurrence in history
removeStroke(ds, strokeId) ==
    LET at == {i \in DOMAIN ds.history : ds.history[i] = strokeId}
        historyIndex == IF at = {} THEN 0 ELSE CHOOSE i \in at : \A k \in at : i <= k
    IN  [ds |-> [ds EXCEPT
                    !.strokes = MapDelete(@, strokeId),
                    !.history = IF historyIndex > 0
                                THEN SubSeq(@, 1, historyIndex - 1)
                                     \o SubSeq(@, historyIndex + 1, Len(@))
                                ELSE @],
         ret |-> None]

----------------------------------------------------------------------------
\* RoomManager (rooms.ts)

userColors ==
    <<"#FF6B6B", "#4ECDC4", "#45B7D1", "#FFA07A",
      "#98D8C8", "#F7DC6F", "#BB8FCE", "#85C1E2">>

\* The characters of a socket id, for substring(0, 6)
SocketIdChars(id) == [i \in 1..Len(id) |-> SubSeq(id, i, i)]

Substring(chars, from, to) ==
    SubSeq(chars, from + 1, IF to < Len(chars) THEN to ELSE Len(chars))

addUser(rm, roomId, userId, socketId) ==
    LET room == IF roomId \in DOMAIN rm.rooms THEN rm.rooms[roomId] ELSE <<>>
        color == userColors[(rm.colorIndex % Len(userColors)) + 1]
        user == [id |-> userId, socketId |-> socketId, color |-> color,
                 name |-> <<"U", "s", "e", "r", " ">> \o Substring(SocketIdChars(userId), 0, 6)]
    IN  [rooms |-> [r \in DOMAIN rm.rooms \cup {roomId} |->
                        IF r = roomId THEN MapSet(room, userId, user) ELSE rm.rooms[r]],
         colorIndex |-> rm.colorIndex + 1]

removeUser(rm, roomId, userId) ==
    IF roomId \in DOMAIN rm.rooms
    THEN LET room == MapDelete(rm.rooms[roomId], userId)
         IN  IF Len(room) = 0
             THEN [rm EXCEPT !.rooms = [r \in DOMAIN rm.rooms \ {roomId} |-> rm.rooms[r]]]
             ELSE [rm EXCEPT !.rooms[roomId] = room]
    ELSE rm

getUsers(rm, roomId) ==
    IF roomId \in DOMAIN rm.rooms THEN MapValues(rm.rooms[roomId]) ELSE <<>>

----------------------------------------------------------------------------
\* Gateway (server.ts): validation

\* The characters of a colour string, for the regular expression and startsWith
ColorChars(s) == [i \in 1..Len(s) |-> SubSeq(s, i, i)]

HexDigits ==
    {"0", "1", "2", "3", "4", "5", "6", "7", "8", "9",
     "a", "b", "c", "d", "e", "f", "A", "B", "C", "D", "E", "F"}

MatchesHexColor(chars) ==
    /\ Len(chars) \in {4, 7}
    /\ chars[1] = "#"
    /\ \A i \in 2..Len(chars) : chars[i] \in HexDigits

StartsWithRgb(chars) ==
    /\ Len(chars) >= 3
    /\ SubSeq(chars, 1, 3) = <<"r", "g", "b">>

validateDrawingData(data) ==
    IF data = None THEN FALSE
    ELSE LET d == data[1]
         IN  /\ TypeOf(d.x) = "number" /\ TypeOf(d.y) = "number"
             /\ ~IsNaN(d.x) /\ ~IsNaN(d.y)
             /\ ~(LessThan(d.x, 0) \/ LessThan(d.y, 0)
                  \/ GreaterThan(d.x, 10000) \/ GreaterThan(d.y, 10000))

MutValidateStrokePropertiesNoMax(data) ==
    IF data = None THEN FALSE
    ELSE LET d == data[1]
         IN  /\ TypeOf(d.color) = "string"
             /\ (MatchesHexColor(ColorChars(d.color.s)) \/ StartsWithRgb(ColorChars(d.color.s)))
             /\ TypeOf(d.lineWidth) = "number"
             /\ ~LessThan(d.lineWidth, 1)
             /\ TypeOf(d.tool) = "string"
             /\ ~(d.tool.s # "brush" /\ d.tool.s # "eraser")

validateStrokeProperties(data) ==
    IF data = None THEN FALSE
    ELSE LET d == data[1]
         IN  /\ TypeOf(d.color) = "string"
             /\ (MatchesHexColor(ColorChars(d.color.s)) \/ StartsWithRgb(ColorChars(d.color.s)))
             /\ TypeOf(d.lineWidth) = "number"
             /\ ~(LessThan(d.lineWidth, 1) \/ GreaterThan(d.lineWidth, 100))
             /\ TypeOf(d.tool) = "string"
             /\ ~(d.tool.s # "brush" /\ d.tool.s # "eraser")

----------------------------------------------------------------------------
\* Gateway (server.ts): connections and handlers

Msg(to, event, data) == [to |-> to, event |-> event, data |-> data]

\* Sockets that socket.io holds in room r, given the rooms of each socket (sr):
\* a socket is in the room named by its own id from its connection on, joins the
\* room it sets currentRoom to and leaves the room that currentRoom named, if
\* that value is truthy, when it joins another
IoRoom(sr, r) == {c \in Conns : r \in sr[c]}

\* if (currentRoom) in the handlers of socket c: null, '' and 0 are falsy
HasRoom(c) == currentRoom[c] # None /\ Truthy(currentRoom[c][1])

\* The value of currentRoom of socket c, undefined while it is null
RoomOf(c) == IF currentRoom[c] # None THEN currentRoom[c][1] ELSE Undefined

NoStoreOp ==
    [op |-> "none", room |-> Undefined, arg |-> "", pre |-> NewDrawingState, ret |-> None]
StoreOp(c, op, room, arg, pre, ret) ==
    [op |-> op, room |-> room, arg |-> arg, pre |-> pre, ret |-> ret, conn |-> c]

\* A cursor-move that the handler of socket c in a room relayed, and its payload
Relayed(c, event, data, room) ==
    [op |-> event, room |-> room, arg |-> "", pre |-> NewDrawingState, ret |-> None,
     conn |-> c, data |-> data]

\* What a join-room handler did: the room joined, the value that currentRoom had
\* (undefined for null), the joined room's store at the join, and whether
\* addUser had to create the room's member map
JoinOp(c, roomId, prior, pre, created) ==
    [op |-> "join-room", room |-> roomId, arg |-> prior, pre |-> pre, ret |-> None,
     conn |-> c, created |-> created]

\* An event that a handler of a socket in a room refused: the sender, the event
\* and its payload, the room and the room's store at that time
Rejected(c, event, data, room, pre) ==
    [op |-> "rejected", room |-> room, arg |-> event, pre |-> pre, ret |-> None,
     conn |-> c, data |-> data]

\* A disconnect of socket c, and the value that its currentRoom had (undefined
\* for null)
DisconnectOp(c, room) ==
    [op |-> "disconnect", room |-> room, arg |-> "", pre |-> NewDrawingState, ret |-> None,
     conn |-> c]

NoRoundTrip == [phase |-> "none", room |-> Undefined, before |-> NewDrawingState]
RoundTripAfter(op, room, before) ==
    CASE op = "undo" -> [phase |-> "undo", room |-> room, before |-> before]
      [] op = "redo" /\ roundTrip.phase = "undo" /\ roundTrip.room = room ->
            [roundTrip EXCEPT !.phase = "undo-redo"]
      [] OTHER -> NoRoundTrip

\* The recorder of accepted drawing events of a room: the ids of the strokes that
\* a draw-end completed, in arrival order (ends); for each stroke between its
\* first draw-start and its draw-end, the point of that draw-start and of each
\* draw-move accepted since, in arrival order (open); the same for the latest
\* completed stroke of each id (done); and whether a draw-start arrived for a
\* stroke that was in progress (restarted).  The record of a stroke holds at
\* most MaxPoints + 1 points, one more than a stroke of the store.  A recorder
\* that is off records nothing.
LogOff == [on |-> FALSE, ends |-> <<>>, open |-> <<>>, done |-> <<>>, restarted |-> FALSE]
NewLog == [on |-> TRUE, ends |-> <<>>, open |-> <<>>, done |-> <<>>, restarted |-> FALSE]

LogDrawStart(data) ==
    IF log.on /\ last'.op = "startStroke"
    THEN IF MapHas(log.open, last'.arg)
         THEN [log EXCEPT !.restarted = TRUE]
         ELSE [log EXCEPT !.open = MapSet(@, last'.arg, <<[x |-> data[1].x, y |-> data[1].y]>>)]
    ELSE log

LogDrawMove(data) ==
    IF /\ log.on /\ last'.op = "addPoint" /\ MapHas(log.open, last'.arg)
       /\ Len(MapGet(log.open, last'.arg)[1]) <= MaxPoints
    THEN [log EXCEPT !.open =
            MapSet(@, last'.arg,
                   Append(MapGet(log.open, last'.arg)[1], [x |-> data[1].x, y |-> data[1].y]))]
    ELSE log

LogDrawEnd(data) ==
    IF log.on /\ last'.op = "endStroke" /\ MapHas(log.open, last'.arg)
    THEN [log EXCEPT !.ends = Append(@, last'.arg),
                     !.done = MapSet(@, last'.arg, MapGet(log.open, last'.arg)[1]),
                     !.open = MapDelete(@, last'.arg)]
    ELSE log

----------------------------------------------------------------------------
\* The browser client: WebSocketManager (websocket.js) and the pointer
\* handlers of CanvasManager (canvas.js) and main.js that call it

maxQueueSize == 100         \* WebSocketManager.maxQueueSize
CursorThrottleMs == 100     \* the interval of the cursor throttle in drawMove

StartTime == 1000           \* Date.now() when the page is loaded
TickMs == 10                \* step of the clock

\* The fields of a WebSocketManager after its constructor.  socket is whether
\* connect() has created the socket; lastCursorUpdate is 0 while it is undefined
\* (Date.now() is never 0, and the guard of drawMove reads only its falsiness).
\* currentStroke is the id of CanvasManager.currentStroke, "" while it is null,
\* and currentStrokeInMap is whether the stroke map still holds that object
\* under its id (a handler of an inbound message may have deleted or replaced
\* the entry, and then draw() extends an object that the map no longer holds).
\* With them come the fields of the page's CanvasManager (strokes, the local
\* stroke map, and tool, color, lineWidth) and of its PerformanceMonitor
\* (pingInterval, whether the interval is set, and latency).  localIds is the
\* number of stroke ids that startDrawing has generated: it stands for the
\* Date.now() and Math.random() that make every id a new one.
NewWebSocketManager ==
    [socket |-> FALSE, connected |-> FALSE, currentRoom |-> "default",
     reconnectAttempts |-> 0, reconnectDelay |-> 1000,
     offlineQueue |-> <<>>, lastCursorUpdate |-> 0, currentStroke |-> "",
     currentStrokeInMap |-> FALSE, strokes |-> <<>>, localIds |-> 0,
     tool |-> "brush", color |-> "#000000", lineWidth |-> 5,
     pingInterval |-> FALSE, latency |-> 0]

\* An entry of offlineQueue; coords is <<>> for a draw-end
QueueEntry(eventType, coords, strokeId) ==
    [type |-> eventType, coords |-> coords, strokeId |-> strokeId]

\* A message handed to socket.emit
Emit(event, data) == [event |-> event, data |-> data]

\* The run of a handler: the manager m, the messages emitted so far (out), the
\* entries whose emit threw (failed) and the number of emit calls made inside a
\* try block so far (k).  The emit call number t of a run throws; t = 0 is a run
\* in which no emit throws.
NewRun(m) == [m |-> m, out |-> <<>>, failed |-> <<>>, k |-> 0]

\* validateDrawingData of the client (used by its handlers of inbound events)
clientValidateDrawingData(data) ==
    /\ data.x >= 0 /\ data.y >= 0 /\ data.x <= 10000 /\ data.y <= 10000
    /\ data.strokeId # ""

MutQueueEventDropsNewest(m, eventType, coords, strokeId) ==
    [m EXCEPT !.offlineQueue =
        Append(IF Len(@) >= maxQueueSize THEN SubSeq(@, 1, Len(@) - 1) ELSE @,
               QueueEntry(eventType, coords, strokeId))]

queueEvent(m, eventType, coords, strokeId) ==
    [m EXCEPT !.offlineQueue =
        Append(IF Len(@) >= maxQueueSize THEN Tail(@) ELSE @,
               QueueEntry(eventType, coords, strokeId))]

\* catch block of a send method: the emit threw, the event is queued
SendFailed(R, eventType, coords, strokeId) ==
    [R EXCEPT !.k = @ + 1,
              !.m = queueEvent(@, eventType, coords, strokeId),
              !.failed = Append(@, QueueEntry(eventType, coords, strokeId))]

Sent(R, event, data) == [R EXCEPT !.k = @ + 1, !.out = Append(@, Emit(event, data))]

startDrawing(R, coords, strokeId, t) ==
    LET data == [x |-> coords.x, y |-> coords.y, color |-> R.m.color,
                 lineWidth |-> R.m.lineWidth, tool |-> R.m.tool, strokeId |-> strokeId]
    IN  IF ~R.m.socket THEN R
        ELSE IF R.m.connected
        THEN IF R.k + 1 = t
             THEN SendFailed(R, "draw-start", Some(coords), strokeId)
             ELSE Sent(R, "draw-start", data)
        ELSE [R EXCEPT !.m = queueEvent(@, "draw-start", Some(coords), strokeId)]

drawMove(R, coords, strokeId, t, now) ==
    LET data == [x |-> coords.x, y |-> coords.y, strokeId |-> strokeId]
        R1 == Sent(R, "draw-move", data)
    IN  IF ~R.m.socket THEN R
        ELSE IF R.m.connected
        THEN IF R.k + 1 = t
             THEN SendFailed(R, "draw-move", Some(coords), strokeId)
             ELSE IF \/ R1.m.lastCursorUpdate = 0
                     \/ now - R1.m.lastCursorUpdate > CursorThrottleMs
                  THEN IF R1.k + 1 = t
                       THEN SendFailed(R1, "draw-move", Some(coords), strokeId)
                       ELSE [Sent(R1, "cursor-move", [x |-> coords.x, y |-> coords.y])
                                EXCEPT !.m.lastCursorUpdate = now]
                  ELSE R1
        ELSE [R EXCEPT !.m = queueEvent(@, "draw-move", Some(coords), strokeId)]

endDrawing(R, strokeId, t) ==
    LET data == [strokeId |-> strokeId]
    IN  IF ~R.m.socket THEN R
        ELSE IF R.m.connected
        THEN IF R.k + 1 = t
             THEN SendFailed(R, "draw-end", None, strokeId)
             ELSE Sent(R, "draw-end", data)
        ELSE [R EXCEPT !.m = queueEvent(@, "draw-end", None, strokeId)]

\* The forEach of processOfflineQueue from index i on: it visits the indices up to
\* the length the array had when forEach was called, and reads the array as the
\* callbacks have left it
RECURSIVE replayFrom(_, _, _, _, _)
replayFrom(R, i, len, t, now) ==
    IF i > len \/ i > Len(R.m.offlineQueue) THEN R
    ELSE LET event == R.m.offlineQueue[i]
             R1 == CASE event.type = "draw-start" ->
                            startDrawing(R, event.coords[1], event.strokeId, t)
                      [] event.type = "draw-move" ->
                            drawMove(R, event.coords[1], event.strokeId, t, now)
                      [] event.type = "draw-end" ->
                            endDrawing(R, event.strokeId, t)
                      [] OTHER -> R
         IN  replayFrom(R1, i + 1, len, t, now)

processOfflineQueue(R, t, now) ==
    IF Len(R.m.offlineQueue) = 0 THEN R
    ELSE [replayFrom(R, 1, Len(R.m.offlineQueue), t, now) EXCEPT !.m.offlineQueue = <<>>]

joinRoom(R, roomId) ==
    [R EXCEPT !.m.currentRoom = roomId,
              !.out = IF R.m.socket THEN Append(@, Emit("join-room", roomId)) ELSE @]

\* PerformanceMonitor.startLatencyMonitoring and stop: the ping interval
startLatencyMonitoring(R) == IF R.m.socket THEN [R EXCEPT !.m.pingInterval = TRUE] ELSE R
stopLatencyMonitoring(R) == [R EXCEPT !.m.pingInterval = FALSE]

MutHandleConnectReplaysFirst(R, t, now) ==
    LET R1 == [R EXCEPT !.m.connected = TRUE,
                        !.m.reconnectAttempts = 0,
                        !.m.reconnectDelay = 1000]
        R2 == processOfflineQueue(R1, t, now)
    IN  startLatencyMonitoring(joinRoom(R2, R2.m.currentRoom))

handleConnect(R, t, now) ==
    LET R1 == [R EXCEPT !.m.connected = TRUE,
                        !.m.reconnectAttempts = 0,
                        !.m.reconnectDelay = 1000]
        R2 == startLatencyMonitoring(joinRoom(R1, R1.m.currentRoom))
    IN  processOfflineQueue(R2, t, now)

handleDisconnect(R) == stopLatencyMonitoring([R EXCEPT !.m.connected = FALSE])

MutSendPingGivesUp(R, now) ==
    IF R.m.pingInterval /\ R.m.socket /\ R.m.connected
    THEN [R EXCEPT !.out = Append(@, Emit("ping", now)),
                   !.m.connected = R.m.latency # 0]
    ELSE R

\* The callback of the ping interval, and the handler of pong
sendPing(R, now) ==
    IF R.m.pingInterval /\ R.m.socket /\ R.m.connected
    THEN [R EXCEPT !.out = Append(@, Emit("ping", now))]
    ELSE R

onPong(R, timestamp, now) == [R EXCEPT !.m.latency = now - timestamp]

MutSendRequestQueuesOffline(R, event) ==
    IF ~R.m.socket THEN R
    ELSE IF ~R.m.connected THEN [R EXCEPT !.m = queueEvent(@, event, None, "")]
    ELSE [R EXCEPT !.out = Append(@, Emit(event, None))]

\* WebSocketManager.undo, redo and clear
sendRequest(R, event) ==
    IF ~R.m.connected \/ ~R.m.socket THEN R
    ELSE [R EXCEPT !.out = Append(@, Emit(event, None))]

\* CanvasManager: the local stroke map.  The entry under the id of currentStroke
\* is the object that currentStroke refers to while currentStrokeInMap holds.
LocalStroke(id, points, color, lineWidth, tool) ==
    [id |-> id, points |-> points, color |-> color, lineWidth |-> lineWidth, tool |-> tool]

\* The id that startDrawing gives to the n-th stroke of the page,
\* `local-${Date.now()}-${Math.random()}`: a new one for every stroke
LocalStrokeId(n) == "local-" \o ToString(n)

canvasStartDrawing(m, coords) ==
    LET strokeId == LocalStrokeId(m.localIds + 1)
    IN  [m EXCEPT !.currentStroke = strokeId,
                  !.currentStrokeInMap = TRUE,
                  !.localIds = @ + 1,
                  !.strokes = MapSet(@, strokeId,
                                     LocalStroke(strokeId, <<coords>>,
                                                 IF m.tool = "eraser" THEN "#FFFFFF" ELSE m.color,
                                                 m.lineWidth, m.tool))]

canvasDraw(m, coords) ==
    LET stroke == MapGet(m.strokes, m.currentStroke)
    IN  IF ~m.currentStrokeInMap THEN m
        ELSE [m EXCEPT !.strokes =
                 MapSet(@, m.currentStroke,
                        [stroke[1] EXCEPT !.points = Append(@, coords)])]

canvasStopDrawing(m) == [m EXCEPT !.currentStroke = "", !.currentStrokeInMap = FALSE]

\* A number or a string of a message of the server, as the client holds it
Plain(v) == IF v.t = "number" THEN v.n ELSE v.s
PlainPoints(points) ==
    [i \in DOMAIN points |-> [x |-> Plain(points[i].x), y |-> Plain(points[i].y)]]

\* The stroke object that the client builds for a stroke of another user or of
\* the server
RemoteStroke(id, points, color, lineWidth, tool, userId) ==
    [id |-> id, points |-> points, color |-> color, lineWidth |-> lineWidth,
     tool |-> tool, userId |-> userId]

remoteDrawStart(m, data) ==
    [m EXCEPT !.currentStrokeInMap = @ /\ data.strokeId # m.currentStroke,
              !.strokes =
        MapSet(@, data.strokeId,
               RemoteStroke(data.strokeId,
                            <<[x |-> Plain(data.x), y |-> Plain(data.y)]>>,
                            IF Plain(data.tool) = "eraser" THEN "#FFFFFF" ELSE Plain(data.color),
                            Plain(data.lineWidth), Plain(data.tool), data.userId))]

remoteDrawMove(m, data) ==
    LET stroke == MapGet(m.strokes, data.strokeId)
    IN  IF stroke = None THEN m
        ELSE [m EXCEPT !.strokes =
                 MapSet(@, data.strokeId,
                        [stroke[1] EXCEPT !.points =
                            Append(@, [x |-> Plain(data.x), y |-> Plain(data.y)])])]

remoteDrawEnd(m, data) == m

undoStroke(m, strokeId) ==
    [m EXCEPT !.currentStrokeInMap = @ /\ strokeId # m.currentStroke,
              !.strokes = MapDelete(@, strokeId)]

ServerStroke(strokeData) ==
    RemoteStroke(strokeData.id, PlainPoints(strokeData.points), Plain(strokeData.color),
                 Plain(strokeData.lineWidth), Plain(strokeData.tool), strokeData.userId)

redoStroke(m, strokeData) ==
    [m EXCEPT !.currentStrokeInMap = @ /\ strokeData.id # m.currentStroke,
              !.strokes = MapSet(@, strokeData.id, ServerStroke(strokeData))]

\* history.forEach of loadState from index i on
RECURSIVE loadFrom(_, _, _)
loadFrom(strokes, history, i) ==
    IF i > Len(history) THEN strokes
    ELSE loadFrom(MapSet(strokes, history[i].id, ServerStroke(history[i])), history, i + 1)

loadState(m, history, currentState) ==
    [m EXCEPT !.currentStrokeInMap = FALSE, !.strokes = loadFrom(<<>>, history, 1)]

canvasClear(m) == [m EXCEPT !.currentStrokeInMap = FALSE, !.strokes = <<>>]

\* validateDrawingData of the client on the data of an inbound draw-start or
\* draw-move
validateInbound(data) ==
    /\ data.x.t = "number" /\ data.y.t = "number"
    /\ clientValidateDrawingData([x |-> data.x.n, y |-> data.y.n, strokeId |-> data.strokeId])

\* The handlers that setupEventHandlers and startLatencyMonitoring register for
\* the messages of the server; userId is this.userId, the id of the socket.
\* The handlers of users-updated, cursor-move and error change only the user
\* list, the cursor layer and the console.
receive(R, msg, userId, now) ==
    LET data == msg.data
    IN  CASE msg.event = "canvas-state" ->
                [R EXCEPT !.m = loadState(@, data.history, data.currentState)]
          [] msg.event = "draw-start" ->
                IF validateInbound(data) /\ data.userId # userId
                THEN [R EXCEPT !.m = remoteDrawStart(@, data)] ELSE R
          [] msg.event = "draw-move" ->
                IF validateInbound(data) /\ data.userId # userId
                THEN [R EXCEPT !.m = remoteDrawMove(@, data)] ELSE R
          [] msg.event = "draw-end" ->
                IF data.strokeId # "" /\ data.userId # userId
                THEN [R EXCEPT !.m = remoteDrawEnd(@, data)] ELSE R
          [] msg.event = "undo" -> [R EXCEPT !.m = undoStroke(@, data.strokeId)]
          [] msg.event = "redo" -> [R EXCEPT !.m = redoStroke(@, data.stroke)]
          [] msg.event = "clear" -> [R EXCEPT !.m = canvasClear(@)]
          [] msg.event = "pong" -> onPong(R, Plain(data), now)
          [] OTHER -> R

\* What the client side has been observed to do: the clock (now), the time of
\* the latest cursor-move sent (cursorLast, 0 if none), and of the last client
\* handler its name (op), the manager before it (pre), the queue entry it
\* originated (arg, <<>> if none), the messages it emitted (out), the entries
\* whose emit threw (failed), if it sent a cursor-move after an earlier one,
\* the time between the two (cursorGap) and, if it handled a message of the
\* server, that message (inbound).
NewWire ==
    [now |-> StartTime, op |-> "new", pre |-> NewWebSocketManager,
     arg |-> <<>>, out |-> <<>>, failed |-> <<>>, cursorGap |-> None, cursorLast |-> 0,
     inbound |-> None]

HasEvent(out, event) == \E i \in DOMAIN out : out[i].event = event

\* The socket of the client.  dialing is the id of the connection that the
\* server is about to accept for it, attached the id of the connection it has
\* ("" if none); up holds the messages the client has emitted that the server has
\* not handled yet, down the messages emitted to the client that it has not
\* handled yet, both in order.
NewNet == [dialing |-> "", attached |-> "", up |-> <<>>, down |-> <<>>]

\* Messages are delivered in order to the sockets they are emitted to
Delivered(n, msgs) ==
    IF n.attached = "" THEN n
    ELSE [n EXCEPT !.down = @ \o SelectSeq(msgs, LAMBDA msg : n.attached \in msg.to)]

\* What a handler of the gateway run for connection c does to the socket of the
\* client: the 'connection' handler attaches the connection the client is
\* dialing, a handler of a message of the client takes that message, and what
\* the handler emits to the client is in flight.
Transport(c, kind) ==
    CASE kind = "connect" ->
            net' = IF c = net.dialing
                   THEN [net EXCEPT !.dialing = "", !.attached = c]
                   ELSE net
      [] kind = "disconnect" ->
            net' = IF c = net.attached THEN NewNet ELSE Delivered(net, emitted')
      [] kind = "message" /\ c = net.attached ->
            /\ net.up # <<>>
            /\ net' = Delivered([net EXCEPT !.up = Tail(@)], emitted')
      [] OTHER ->
            net' = Delivered(net, emitted')

\* What a handler of the client does to its socket: the messages it emits are in
\* flight, the handler of an inbound message takes that message, and the
\* 'disconnect' event is the loss of the connection with all that is in flight.
Uplink(name, out) ==
    CASE name = "handleDisconnect" -> NewNet
      [] name = "receive" -> [net EXCEPT !.down = Tail(@)]
      [] net.attached # "" -> [net EXCEPT !.up = @ \o out]
      [] OTHER -> net

----------------------------------------------------------------------------
\* The socket handlers of the gateway

Init ==
    /\ conn = [c \in Conns |-> "idle"]
    /\ currentRoom = [c \in Conns |-> None]
    /\ socketRooms = [c \in Conns |-> {}]
    /\ rooms = <<>>
    /\ colorIndex = 0
    /\ drawingStates = <<>>
    /\ emitted = <<>>
    /\ last = NoStoreOp
    /\ roundTrip = NoRoundTrip
    /\ log = LogOff
    /\ client = NewWebSocketManager
    /\ wire = NewWire
    /\ net = NewNet

\* A handler that returns before it reaches the store
Reply(msgs) ==
    /\ emitted' = msgs
    /\ last' = NoStoreOp
    /\ roundTrip' = NoRoundTrip
    /\ UNCHANGED <<conn, currentRoom, socketRooms, rooms, colorIndex, drawingStates>>

\* A handler of socket c that refuses its event and replies msgs
Reject(c, event, data, msgs) ==
    LET room == currentRoom[c][1]
    IN  /\ emitted' = msgs
        /\ last' = Rejected(c, event, data, room,
                            IF room \in DOMAIN drawingStates
                            THEN drawingStates[room] ELSE NewDrawingState)
        /\ roundTrip' = NoRoundTrip
        /\ UNCHANGED <<conn, currentRoom, socketRooms, rooms, colorIndex, drawingStates>>

\* The handler of socket c ran store operation r (of the store operators) on the
\* room's store
Apply(c, room, op, arg, r, msgs) ==
    /\ drawingStates' = [drawingStates EXCEPT ![room] = r.ds]
    /\ emitted' = msgs
    /\ last' = StoreOp(c, op, room, arg, drawingStates[room], r.ret)
    /\ roundTrip' = RoundTripAfter(op, room, drawingStates[room])
    /\ UNCHANGED <<conn, currentRoom, socketRooms, rooms, colorIndex>>

Connect(c) ==
    /\ conn[c] = "idle"
    /\ conn' = [conn EXCEPT ![c] = "open"]
    /\ currentRoom' = [currentRoom EXCEPT ![c] = None]
    /\ socketRooms' = [socketRooms EXCEPT ![c] = {Str(c)}]
    /\ emitted' = <<>>
    /\ last' = NoStoreOp
    /\ roundTrip' = NoRoundTrip
    /\ UNCHANGED <<rooms, colorIndex, drawingStates, log, client, wire>>
    /\ Transport(c, "connect")

MutJoinRoomUsersToOthers(c, roomIdArg) ==
    /\ conn[c] = "open"
    /\ colorIndex < MaxJoins
    /\ LET roomId == IF roomIdArg.t = "undefined" THEN Str("default") ELSE roomIdArg
           rm0 == [rooms |-> rooms, colorIndex |-> colorIndex]
           rm1 == IF HasRoom(c) THEN removeUser(rm0, currentRoom[c][1], c) ELSE rm0
           rm2 == addUser(rm1, roomId, c, c)
           cr == [currentRoom EXCEPT ![c] = Some(roomId)]
           sr == [socketRooms EXCEPT ![c] =
                     (IF HasRoom(c) THEN @ \ {currentRoom[c][1]} ELSE @) \cup {roomId}]
           states == IF roomId \in DOMAIN drawingStates
                     THEN drawingStates
                     ELSE [r \in DOMAIN drawingStates \cup {roomId} |->
                              IF r = roomId THEN NewDrawingState ELSE drawingStates[r]]
           drawingState == states[roomId]
           users == getUsers(rm2, roomId)
       IN  /\ currentRoom' = cr
           /\ socketRooms' = sr
           /\ rooms' = rm2.rooms
           /\ colorIndex' = rm2.colorIndex
           /\ drawingStates' = states
           /\ emitted' = <<Msg({c}, "canvas-state",
                               [history |-> getHistory(drawingState),
                                currentState |-> getCurrentState(drawingState)]),
                           Msg(IoRoom(sr, roomId) \ {c}, "users-updated", users)>>
           /\ last' = JoinOp(c, roomId, RoomOf(c),
                             drawingState, roomId \notin DOMAIN rm1.rooms)
    /\ roundTrip' = NoRoundTrip
    /\ UNCHANGED <<conn, log, client, wire>>
    /\ Transport(c, "message")

JoinRoom(c, roomIdArg) ==
    /\ conn[c] = "open"
    /\ colorIndex < MaxJoins
    /\ LET roomId == IF roomIdArg.t = "undefined" THEN Str("default") ELSE roomIdArg
           rm0 == [rooms |-> rooms, colorIndex |-> colorIndex]
           rm1 == IF HasRoom(c) THEN removeUser(rm0, currentRoom[c][1], c) ELSE rm0
           rm2 == addUser(rm1, roomId, c, c)
           cr == [currentRoom EXCEPT ![c] = Some(roomId)]
           sr == [socketRooms EXCEPT ![c] =
                     (IF HasRoom(c) THEN @ \ {currentRoom[c][1]} ELSE @) \cup {roomId}]
           states == IF roomId \in DOMAIN drawingStates
                     THEN drawingStates
                     ELSE [r \in DOMAIN drawingStates \cup {roomId} |->
                              IF r = roomId THEN NewDrawingState ELSE drawingStates[r]]
           drawingState == states[roomId]
           users == getUsers(rm2, roomId)
       IN  /\ currentRoom' = cr
           /\ socketRooms' = sr
           /\ rooms' = rm2.rooms
           /\ colorIndex' = rm2.colorIndex
           /\ drawingStates' = states
           /\ emitted' = <<Msg({c}, "canvas-state",
                               [history |-> getHistory(drawingState),
                                currentState |-> getCurrentState(drawingState)]),
                           Msg(IoRoom(sr, roomId), "users-updated", users)>>
           /\ last' = JoinOp(c, roomId, RoomOf(c),
                             drawingState, roomId \notin DOMAIN rm1.rooms)
    /\ roundTrip' = NoRoundTrip
    /\ UNCHANGED <<conn, log, client, wire>>
    /\ Transport(c, "message")

DrawStart(c, data) ==
    /\ conn[c] = "open"
    /\ IF ~HasRoom(c)
       THEN Reply(<<>>)
       ELSE IF ~validateDrawingData(data) \/ ~validateStrokeProperties(data)
       THEN Reject(c, "draw-start", data,
                   <<Msg({c}, "error", [message |-> "Invalid drawing data"])>>)
       ELSE LET room == currentRoom[c][1] IN
            IF room \notin DOMAIN drawingStates
            THEN Reply(<<>>)
            ELSE \E uuid \in Uuids :
                    LET d == data[1]
                        drawingState == drawingStates[room]
                        id == IF Truthy(d.strokeId) THEN d.strokeId ELSE Str(uuid)
                        strokeId == JsValue(id)
                        r == startStroke(drawingState, c, [d EXCEPT !.strokeId = id], uuid)
                    IN  /\ Truthy(d.strokeId) \/
                             /\ ~MapHas(drawingState.strokes, uuid)
                             /\ ~MapHas(drawingState.currentStrokes, uuid)
                        /\ Apply(c, room, "startStroke", strokeId, [r EXCEPT !.ret = Some(r.ret)],
                                 <<Msg(IoRoom(socketRooms, room) \ {c}, "draw-start",
                                       [x |-> d.x, y |-> d.y, color |-> d.color,
                                        lineWidth |-> d.lineWidth, tool |-> d.tool,
                                        userId |-> c, strokeId |-> strokeId])>>)
    /\ log' = LogDrawStart(data)
    /\ UNCHANGED clientVars
    /\ Transport(c, "message")

DrawMove(c, data) ==
    /\ conn[c] = "open"
    /\ IF ~HasRoom(c)
       THEN Reply(<<>>)
       ELSE IF \/ ~validateDrawingData(data)
               \/ ~Truthy(data[1].strokeId)
               \/ TypeOf(data[1].strokeId) # "string"
       THEN Reply(<<>>)
       ELSE LET room == currentRoom[c][1] IN
            IF room \notin DOMAIN drawingStates
            THEN Reply(<<>>)
            ELSE    LET d == data[1]
                        drawingState == drawingStates[room]
                        active == MapGet(drawingState.currentStrokes, d.strokeId.s)
                        r == addPoint(drawingState, d.strokeId.s, d.x, d.y)
                    IN  /\ active # None => Len(active[1].points) < MaxPoints
                        /\ Apply(c, room, "addPoint", d.strokeId.s, r,
                                 <<Msg(IoRoom(socketRooms, room) \ {c}, "draw-move",
                                       [x |-> d.x, y |-> d.y, strokeId |-> d.strokeId.s,
                                        userId |-> c])>>)
    /\ log' = LogDrawMove(data)
    /\ UNCHANGED clientVars
    /\ Transport(c, "message")

DrawEnd(c, data) ==
    /\ conn[c] = "open"
    /\ IF ~HasRoom(c)
       THEN Reply(<<>>)
       ELSE IF \/ data = None
               \/ ~Truthy(data[1].strokeId)
               \/ TypeOf(data[1].strokeId) # "string"
       THEN Reply(<<>>)
       ELSE LET room == currentRoom[c][1] IN
            IF room \notin DOMAIN drawingStates
            THEN Reply(<<>>)
            ELSE    LET d == data[1]
                        drawingState == drawingStates[room]
                        active == MapHas(drawingState.currentStrokes, d.strokeId.s)
                        r == endStroke(drawingState, d.strokeId.s)
                    IN  /\ active => Len(drawingState.history) < MaxHistory
                        /\ Apply(c, room, "endStroke", d.strokeId.s, r,
                                 <<Msg(IoRoom(socketRooms, room) \ {c}, "draw-end",
                                       [strokeId |-> d.strokeId.s, userId |-> c])>>)
    /\ log' = LogDrawEnd(data)
    /\ UNCHANGED clientVars
    /\ Transport(c, "message")

CursorMove(c, data) ==
    /\ conn[c] = "open"
    /\ IF ~HasRoom(c)
       THEN Reply(<<>>)
       ELSE /\ emitted' = <<Msg(IoRoom(socketRooms, currentRoom[c][1]) \ {c}, "cursor-move",
                                IF data = None
                                THEN [userId |-> c]
                                ELSE [x |-> data[1].x, y |-> data[1].y, userId |-> c])>>
            /\ last' = Relayed(c, "cursor-move", data, currentRoom[c][1])
            /\ roundTrip' = NoRoundTrip
            /\ UNCHANGED <<conn, currentRoom, socketRooms, rooms, colorIndex, drawingStates>>
    /\ UNCHANGED <<log, client, wire>>
    /\ Transport(c, "message")

Undo(c) ==
    /\ conn[c] = "open"
    /\ IF ~HasRoom(c)
       THEN Reply(<<>>)
       ELSE LET room == currentRoom[c][1] IN
            IF room \notin DOMAIN drawingStates
            THEN Reply(<<>>)
            ELSE LET r == undo(drawingStates[room])
                 IN  Apply(c, room, "undo", "", r,
                           IF r.ret # None
                           THEN <<Msg(IoRoom(socketRooms, room), "undo",
                                      [strokeId |-> r.ret[1].id, userId |-> c])>>
                           ELSE <<Msg({c}, "undo-failed", [message |-> "Nothing to undo"])>>)
    /\ UNCHANGED <<log, client, wire>>
    /\ Transport(c, "message")

MutRedoFailedToRoom(c) ==
    /\ conn[c] = "open"
    /\ IF ~HasRoom(c)
       THEN Reply(<<>>)
       ELSE LET room == currentRoom[c][1] IN
            IF room \notin DOMAIN drawingStates
            THEN Reply(<<>>)
            ELSE LET r == redo(drawingStates[room])
                 IN  Apply(c, room, "redo", "", r,
                           IF r.ret # None
                           THEN <<Msg(IoRoom(socketRooms, room), "redo",
                                      [stroke |-> r.ret[1], userId |-> c])>>
                           ELSE <<Msg(IoRoom(socketRooms, room), "redo-failed", [message |-> "Nothing to redo"])>>)
    /\ UNCHANGED <<log, client, wire>>
    /\ Transport(c, "message")

Redo(c) ==
    /\ conn[c] = "open"
    /\ IF ~HasRoom(c)
       THEN Reply(<<>>)
       ELSE LET room == currentRoom[c][1] IN
            IF room \notin DOMAIN drawingStates
            THEN Reply(<<>>)
            ELSE LET r == redo(drawingStates[room])
                 IN  Apply(c, room, "redo", "", r,
                           IF r.ret # None
                           THEN <<Msg(IoRoom(socketRooms, room), "redo",
                                      [stroke |-> r.ret[1], userId |-> c])>>
                           ELSE <<Msg({c}, "redo-failed", [message |-> "Nothing to redo"])>>)
    /\ UNCHANGED <<log, client, wire>>
    /\ Transport(c, "message")

Clear(c) ==
    /\ conn[c] = "open"
    /\ IF ~HasRoom(c)
       THEN Reply(<<>>)
       ELSE LET room == currentRoom[c][1] IN
            IF room \notin DOMAIN drawingStates
            THEN Reply(<<>>)
            ELSE \* drawingState.clear is not a function: the TypeError is caught
                 Reply(<<Msg({c}, "error", [message |-> "Failed to clear canvas"])>>)
    /\ UNCHANGED <<log, client, wire>>
    /\ Transport(c, "message")

Disconnect(c) ==
    /\ conn[c] = "open"
    /\ conn' = [conn EXCEPT ![c] = "closed"]
    /\ socketRooms' = [socketRooms EXCEPT ![c] = {}]
    /\ IF HasRoom(c)
       THEN LET room == currentRoom[c][1]
                rm == removeUser([rooms |-> rooms, colorIndex |-> colorIndex], room, c)
            IN  /\ rooms' = rm.rooms
                /\ emitted' = <<Msg(IoRoom(socketRooms', room), "users-updated",
                                    getUsers(rm, room))>>
       ELSE /\ rooms' = rooms
            /\ emitted' = <<>>
    /\ last' = DisconnectOp(c, RoomOf(c))
    /\ roundTrip' = NoRoundTrip
    /\ UNCHANGED <<currentRoom, colorIndex, drawingStates, log, client, wire>>
    /\ Transport(c, "disconnect")

\* socket.on('ping')
Ping(c, timestamp) ==
    /\ conn[c] = "open"
    /\ emitted' = <<Msg({c}, "pong", timestamp)>>
    /\ last' = Relayed(c, "ping", timestamp, Undefined)
    /\ roundTrip' = NoRoundTrip
    /\ UNCHANGED <<conn, currentRoom, socketRooms, rooms, colorIndex, drawingStates, log, client, wire>>
    /\ Transport(c, "message")

\* POST /api/load-session with body {filename, roomId}; found tells whether the
\* session file is read and parsed.  The store of the room is created if there
\* is none, and deserialize, which DrawingState does not define, throws: the
\* request is answered with status 500 and nothing is emitted to the room.
LoadSession(roomIdArg, found) ==
    /\ drawingStates' =
          IF Truthy(roomIdArg) /\ found /\ roomIdArg \notin DOMAIN drawingStates
          THEN [r \in DOMAIN drawingStates \cup {roomIdArg} |->
                   IF r = roomIdArg THEN NewDrawingState ELSE drawingStates[r]]
          ELSE drawingStates
    /\ emitted' = <<>>
    /\ last' = NoStoreOp
    /\ roundTrip' = NoRoundTrip
    /\ UNCHANGED <<conn, currentRoom, socketRooms, rooms, colorIndex, log, client, wire>>
    /\ Transport("", "call")

\* A direct call of the store's public operation removeStroke on the store of a
\* room; no handler of the gateway calls it
RemoveStroke(room, strokeId) ==
    /\ room \in DOMAIN drawingStates
    /\ Apply("", room, "removeStroke", strokeId,
             removeStroke(drawingStates[room], strokeId), <<>>)
    /\ UNCHANGED <<log, client, wire>>
    /\ Transport("", "call")

----------------------------------------------------------------------------
\* Inputs of the gateway

RoomIdInputs == {Undefined, Str("r1"), Str(""), Str("A"), Num(5), Num(0)}

StrokeIdInputs == {Str("s1"), Str("s2"), Undefined}

Payload(x, y, color, lineWidth, tool, strokeId) ==
    Some([x |-> x, y |-> y, color |-> color, lineWidth |-> lineWidth, tool |-> tool,
          strokeId |-> strokeId])

ValidDrawStartInputs ==
    {Payload(Num(10), Num(10), Str("#000000"), Num(5), Str("brush"), id) :
        id \in StrokeIdInputs}
    \cup {Payload(Num(0), Num(10000), Str("#fff"), Num(100), Str("eraser"), Str("s1"))}

InvalidDrawStartInputs ==
    {None,
     Payload(Num(-1), Num(10), Str("#000000"), Num(5), Str("brush"), Str("s1")),
     Payload(Num(10), Num(10001), Str("#000000"), Num(5), Str("brush"), Str("s1")),
     Payload(NaNValue, Num(10), Str("#000000"), Num(5), Str("brush"), Str("s1")),
     Payload(Num(10), Str("10"), Str("#000000"), Num(5), Str("brush"), Str("s1")),
     Payload(Num(10), Num(10), Str("red"), Num(5), Str("brush"), Str("s1")),
     Payload(Num(10), Num(10), Str("#12345"), Num(5), Str("brush"), Str("s1")),
     Payload(Num(10), Num(10), Str("#000000"), Num(0), Str("brush"), Str("s1")),
     Payload(Num(10), Num(10), Str("#000000"), Num(101), Str("brush"), Str("s1")),
     Payload(Num(10), Num(10), Str("#000000"), Num(5), Str("pen"), Str("s1"))}

DrawStartInputs == ValidDrawStartInputs \cup InvalidDrawStartInputs

MovePayload(x, y, strokeId) == Some([x |-> x, y |-> y, strokeId |-> strokeId])

DrawMoveInputs ==
    {MovePayload(Num(20), Num(20), id) : id \in {Str("s1"), Str("s2"), Str("u1")}}
    \cup {None,
          MovePayload(Num(20), Num(20), Undefined),
          MovePayload(Num(20), Num(20), Str("")),
          MovePayload(Num(20), Num(20), Num(1)),
          MovePayload(Num(-1), Num(20), Str("s1"))}

EndPayload(strokeId) == Some([strokeId |-> strokeId])

DrawEndInputs ==
    {EndPayload(id) : id \in {Str("s1"), Str("s2"), Str("u1")}}
    \cup {None, EndPayload(Undefined), EndPayload(Str("")), EndPayload(Num(1))}

CursorPayload(x, y) == Some([x |-> x, y |-> y])

CursorMoveInputs ==
    {CursorPayload(Num(30), Num(30)),
     CursorPayload(Num(-1), Num(30)),
     CursorPayload(Num(30), Num(10001)),
     CursorPayload(NaNValue, Num(30)),
     CursorPayload(Num(30), Str("30")),
     None}

Next ==
    \/ \E c \in Conns : Connect(c)
    \/ \E c \in Conns, r \in RoomIdInputs : JoinRoom(c, r)
    \/ \E c \in Conns, d \in DrawStartInputs : DrawStart(c, d)
    \/ \E c \in Conns, d \in DrawMoveInputs : DrawMove(c, d)
    \/ \E c \in Conns, d \in DrawEndInputs : DrawEnd(c, d)
    \/ \E c \in Conns, d \in CursorMoveInputs : CursorMove(c, d)
    \/ \E c \in Conns : Undo(c)
    \/ \E c \in Conns : Redo(c)
    \/ \E c \in Conns : Clear(c)
    \/ \E c \in Conns : Disconnect(c)
    \/ \E r \in RoomIdInputs, found \in BOOLEAN : LoadSession(r, found)

Spec == Init /\ [][Next]_vars

----------------------------------------------------------------------------
\* The store of one room, driven by the drawing handlers of two members.
\* It starts in the state that Connect("A"), Connect("B"), JoinRoom("A", Undefined)
\* and JoinRoom("B", Undefined) lead to from Init.

JoinedManager ==
    addUser(addUser([rooms |-> <<>>, colorIndex |-> 0], Str("default"), "A", "A"),
            Str("default"), "B", "B")

JoinedState ==
    /\ conn = [c \in Conns |-> "open"]
    /\ currentRoom = [c \in Conns |-> Some(Str("default"))]
    /\ socketRooms = [c \in Conns |-> {Str(c), Str("default")}]
    /\ rooms = JoinedManager.rooms
    /\ colorIndex = JoinedManager.colorIndex
    /\ drawingStates = [r \in {Str("default")} |-> NewDrawingState]
    /\ emitted = <<Msg({"B"}, "canvas-state", [history |-> <<>>, currentState |-> <<>>]),
                   Msg(Conns, "users-updated", getUsers(JoinedManager, Str("default")))>>
    /\ last = NoStoreOp
    /\ roundTrip = NoRoundTrip
    /\ client = NewWebSocketManager
    /\ wire = NewWire
    /\ net = NewNet

InitJoined == JoinedState /\ log = LogOff

\* A draws strokes s1 and s2 and extends s1; B draws under the id s1 as well,
\* and undoes, redoes and clears.
StoreStartIds(c) == IF c = "A" THEN {Str("s1"), Str("s2")} ELSE {Str("s1")}

StoreDrawStartInputs(c) ==
    {Payload(Num(10), Num(10), Str("#000000"), Num(5), Str("brush"), id) :
        id \in StoreStartIds(c)}

StoreDrawMoveInputs(c) == {MovePayload(Num(20), Num(20), Str("s1"))}

StoreDrawEndInputs(c) == {EndPayload(id) : id \in StoreStartIds(c)}

NextStore ==
    \/ \E c \in Conns : \E d \in StoreDrawStartInputs(c) : DrawStart(c, d)
    \/ \E c \in Conns : \E d \in StoreDrawMoveInputs(c) : DrawMove(c, d)
    \/ \E c \in Conns : \E d \in StoreDrawEndInputs(c) : DrawEnd(c, d)
    \/ Undo("B")
    \/ Redo("B")
    \/ Clear("B")

SpecStore == InitJoined /\ [][NextStore]_vars

\* The public operations of the store, removeStroke included: A draws, undoes and
\* redoes, and strokes are removed from the room's store.
StoreApiIds == {"s1", "s2"}

NextStoreApi ==
    \/ \E d \in StoreDrawStartInputs("A") : DrawStart("A", d)
    \/ \E d \in StoreDrawMoveInputs("A") : DrawMove("A", d)
    \/ \E d \in StoreDrawEndInputs("A") : DrawEnd("A", d)
    \/ Undo("A")
    \/ Redo("A")
    \/ \E id \in StoreApiIds : RemoveStroke(Str("default"), id)

SpecStoreApi == InitJoined /\ [][NextStoreApi]_vars

----------------------------------------------------------------------------
\* The drawing handlers alone (no undo, redo or clear), with the recorder on

InitDraw == JoinedState /\ log = NewLog

\* A draw-move extends s1 along a path: by (20,20) after the point of its
\* draw-start, then by (30,30), so that the points of a stroke differ
NextDraw ==
    \/ \E c \in Conns : \E d \in StoreDrawStartInputs(c) : DrawStart(c, d)
    \/ \E c \in Conns :
          LET stroke == MapGet(drawingStates[Str("default")].currentStrokes, "s1")
              n == IF stroke = None THEN 1 ELSE Len(stroke[1].points)
          IN  DrawMove(c, MovePayload(Num(10 * n + 10), Num(10 * n + 10), Str("s1")))
    \/ \E c \in Conns : \E d \in StoreDrawEndInputs(c) : DrawEnd(c, d)

SpecDraw == InitDraw /\ [][NextDraw]_vars

----------------------------------------------------------------------------
\* Rooms: sockets connect, join and change rooms and disconnect, sessions are
\* loaded into rooms, and A draws the stroke s1 in the room it is in

RoomsDrawStartInputs ==
    {Payload(Num(10), Num(10), Str("#000000"), Num(5), Str("brush"), Str("s1"))}

RoomsDrawEndInputs == {EndPayload(Str("s1"))}

NextRooms ==
    \/ \E c \in Conns : Connect(c)
    \/ \E c \in Conns, r \in RoomIdInputs : colorIndex < MaxRoomsJoins /\ JoinRoom(c, r)
    \/ \E d \in RoomsDrawStartInputs : DrawStart("A", d)
    \/ \E d \in RoomsDrawEndInputs : DrawEnd("A", d)
    \/ \E c \in Conns : Disconnect(c)
    \/ \E r \in {Undefined, Str("r1")}, found \in BOOLEAN : LoadSession(r, found)

SpecRooms == Init /\ [][NextRooms]_vars

----------------------------------------------------------------------------
\* Validation and fan-out: two members of one room send valid and invalid events

\* The last payload has a lineWidth of NaN, which no comparison rejects
GatewayDrawStartInputs ==
    RoomsDrawStartInputs \cup InvalidDrawStartInputs
    \cup {Payload(Num(10), Num(10), Str("rgb(1,2,3)"), NaNValue, Str("eraser"), Str("s1"))}

GatewayDrawMoveInputs ==
    {MovePayload(Num(20), Num(20), Str("s1")),
     None,
     MovePayload(Num(20), Num(20), Undefined),
     MovePayload(Num(20), Num(20), Str("")),
     MovePayload(Num(20), Num(20), Num(1)),
     MovePayload(Num(-1), Num(20), Str("s1")),
     MovePayload(Num(20), NaNValue, Str("s1"))}

GatewayDrawEndInputs ==
    {EndPayload(Str("s1")), None, EndPayload(Undefined), EndPayload(Str("")),
     EndPayload(Num(1))}

NextGateway ==
    \/ \E c \in Conns, d \in GatewayDrawStartInputs : DrawStart(c, d)
    \/ \E c \in Conns, d \in GatewayDrawMoveInputs : DrawMove(c, d)
    \/ \E c \in Conns, d \in GatewayDrawEndInputs : DrawEnd(c, d)
    \/ \E c \in Conns, d \in CursorMoveInputs : CursorMove(c, d)
    \/ \E c \in Conns : Undo(c)
    \/ \E c \in Conns : Redo(c)
    \/ \E c \in Conns : Clear(c)

SpecGateway == InitJoined /\ [][NextGateway]_vars

----------------------------------------------------------------------------
\* Fan-out: A has joined the default room and draws there, B is connected and
\* joins and changes rooms, and both send cursor events.  The initial state is the
\* one that Connect("A"), Connect("B") and JoinRoom("A", Undefined) lead to from
\* Init.

FanoutManager == addUser([rooms |-> <<>>, colorIndex |-> 0], Str("default"), "A", "A")

InitFanout ==
    /\ conn = [c \in Conns |-> "open"]
    /\ currentRoom = [c \in Conns |-> IF c = "A" THEN Some(Str("default")) ELSE None]
    /\ socketRooms = [c \in Conns |-> IF c = "A" THEN {Str(c), Str("default")} ELSE {Str(c)}]
    /\ rooms = FanoutManager.rooms
    /\ colorIndex = FanoutManager.colorIndex
    /\ drawingStates = [r \in {Str("default")} |-> NewDrawingState]
    /\ emitted = <<Msg({"A"}, "canvas-state", [history |-> <<>>, currentState |-> <<>>]),
                   Msg({"A"}, "users-updated", getUsers(FanoutManager, Str("default")))>>
    /\ last = JoinOp("A", Str("default"), Undefined, NewDrawingState, TRUE)
    /\ roundTrip = NoRoundTrip
    /\ log = LogOff
    /\ client = NewWebSocketManager
    /\ wire = NewWire
    /\ net = NewNet

FanoutDrawMoveInputs == {MovePayload(Num(20), Num(20), Str("s1"))}

FanoutCursorMoveInputs == {CursorPayload(Num(30), Num(30)), CursorPayload(Num(-1), Num(30))}

FanoutJoiners == {"B"}
FanoutDrawers == {"A"}

NextFanout ==
    \/ \E c \in FanoutJoiners, r \in RoomIdInputs : JoinRoom(c, r)
    \/ \E c \in FanoutDrawers, d \in RoomsDrawStartInputs : DrawStart(c, d)
    \/ \E c \in FanoutDrawers, d \in FanoutDrawMoveInputs : DrawMove(c, d)
    \/ \E c \in FanoutDrawers, d \in RoomsDrawEndInputs : DrawEnd(c, d)
    \/ \E c \in Conns, d \in FanoutCursorMoveInputs : CursorMove(c, d)

SpecFanout == InitFanout /\ [][NextFanout]_vars

----------------------------------------------------------------------------
\* Snapshots: A has joined the default room, draws the strokes s1 and s2, undoes
\* and redoes; B is connected and joins the room, at any moment and again.

NextSnapshot ==
    \/ \E d \in StoreDrawStartInputs("A") : DrawStart("A", d)
    \/ \E d \in StoreDrawMoveInputs("A") : DrawMove("A", d)
    \/ \E d \in StoreDrawEndInputs("A") : DrawEnd("A", d)
    \/ Undo("A")
    \/ Redo("A")
    \/ JoinRoom("B", Undefined)

SpecSnapshot == InitFanout /\ [][NextSnapshot]_vars

----------------------------------------------------------------------------
\* The handlers of the browser client.  None of them touches the state of the
\* server; what they emit is recorded in wire.

ClientStep(name, R, arg) ==
    /\ client' = R.m
    /\ wire' = [now |-> wire.now, op |-> name, pre |-> client,
                arg |-> arg, out |-> R.out, failed |-> R.failed,
                cursorGap |-> IF Len(SelectSeq(R.out, LAMBDA e : e.event = "cursor-move")) > 1
                              THEN Some(0)
                              ELSE IF HasEvent(R.out, "cursor-move") /\ wire.cursorLast # 0
                              THEN Some(wire.now - wire.cursorLast) ELSE None,
                cursorLast |-> IF HasEvent(R.out, "cursor-move") THEN wire.now
                               ELSE wire.cursorLast,
                inbound |-> IF name = "receive" THEN Some(Head(net.down)) ELSE None]
    /\ net' = Uplink(name, R.out)
    /\ UNCHANGED serverVars

\* WebSocketManager.connect(): creates the socket and registers the handlers
ClientConnect ==
    /\ ~client.socket
    /\ ClientStep("connect", NewRun([client EXCEPT !.socket = TRUE]), <<>>)

\* socket.on('connect'): handleConnect, with the replay of the offline queue
HandleConnect(t) ==
    /\ client.socket
    /\ ~client.connected
    /\ ClientStep("handleConnect", handleConnect(NewRun(client), t, wire.now), <<>>)

\* socket.on('disconnect')
HandleDisconnect ==
    /\ client.socket
    /\ client.connected
    /\ ClientStep("handleDisconnect", handleDisconnect(NewRun(client)), <<>>)

\* CanvasManager.startDrawing on mousedown or touchstart
PointerDown(coords, t) ==
    LET m == canvasStartDrawing(client, coords)
    IN  ClientStep("startDrawing",
                   startDrawing(NewRun(m), coords, m.currentStroke, t),
                   Some(QueueEntry("draw-start", Some(coords), m.currentStroke)))

\* A mousemove on the canvas (touchmove dispatches one): the listener of
\* CanvasManager runs draw, which returns at once unless a stroke is in
\* progress, and then the listener of main.js that tracks the cursor emits a
\* cursor-move of its own if the manager is connected.  That emit is outside any
\* try block: if it throws, nothing is sent.
PointerMove(coords, t) ==
    LET drawing == client.currentStroke # ""
        R == IF drawing
             THEN drawMove(NewRun(canvasDraw(client, coords)), coords,
                           client.currentStroke, t, wire.now)
             ELSE NewRun(client)
    IN  ClientStep(IF drawing THEN "drawMove" ELSE "cursorTrack",
                   IF R.m.socket /\ R.m.connected /\ R.k + 1 # t
                   THEN [R EXCEPT !.out = Append(@, Emit("cursor-move",
                                                          [x |-> coords.x, y |-> coords.y]))]
                   ELSE R,
                   IF drawing
                   THEN Some(QueueEntry("draw-move", Some(coords), client.currentStroke))
                   ELSE <<>>)

\* CanvasManager.stopDrawing on mouseup, mouseleave or touchend
PointerUp(t) ==
    /\ client.currentStroke # ""
    /\ ClientStep("endDrawing",
                  [endDrawing(NewRun(client), client.currentStroke, t)
                      EXCEPT !.m = canvasStopDrawing(@)],
                  Some(QueueEntry("draw-end", None, client.currentStroke)))

\* The undo, redo and clear buttons (and shortcuts) of main.js
ClientRequest(event) ==
    /\ ClientStep(event, sendRequest(NewRun(client), event), <<>>)

\* The tool buttons of main.js: CanvasManager.setTool
SetTool(tool) ==
    /\ ClientStep("setTool", NewRun([client EXCEPT !.tool = tool]), <<>>)

\* The colour picker and the colour presets of main.js: CanvasManager.setColor
SetColor(color) ==
    /\ ClientStep("setColor", NewRun([client EXCEPT !.color = color]), <<>>)

\* The width slider of main.js: CanvasManager.setLineWidth
SetLineWidth(width) ==
    /\ ClientStep("setLineWidth", NewRun([client EXCEPT !.lineWidth = width]), <<>>)

\* The callback of the ping interval of PerformanceMonitor
PingTimer ==
    /\ client.pingInterval
    /\ ClientStep("ping", sendPing(NewRun(client), wire.now), <<>>)

\* A message of the server arrives at the client
ClientReceive ==
    /\ net.down # <<>>
    /\ ClientStep("receive",
                  receive(NewRun(client), Head(net.down), net.attached, wire.now), <<>>)

\* The socket that connect() created reaches the server, which is about to
\* accept it as connection c
Dial(c) ==
    /\ client.socket
    /\ ~client.connected
    /\ net.attached = ""
    /\ net.dialing = ""
    /\ conn[c] = "idle"
    /\ net' = [net EXCEPT !.dialing = c]
    /\ UNCHANGED <<serverVars, client, wire>>

\* A message of the client arrives at the gateway, which runs the handler of its
\* event on the connection of the client
ServerReceive ==
    /\ net.attached # ""
    /\ net.up # <<>>
    /\ LET c == net.attached
           event == Head(net.up).event
           d == Head(net.up).data
       IN  CASE event = "join-room" -> JoinRoom(c, Str(d))
             [] event = "draw-start" ->
                    DrawStart(c, Payload(Num(d.x), Num(d.y), Str(d.color),
                                         Num(d.lineWidth), Str(d.tool), Str(d.strokeId)))
             [] event = "draw-move" ->
                    DrawMove(c, MovePayload(Num(d.x), Num(d.y), Str(d.strokeId)))
             [] event = "draw-end" -> DrawEnd(c, EndPayload(Str(d.strokeId)))
             [] event = "cursor-move" -> CursorMove(c, CursorPayload(Num(d.x), Num(d.y)))
             [] event = "undo" -> Undo(c)
             [] event = "redo" -> Redo(c)
             [] event = "clear" -> Clear(c)
             [] event = "ping" -> Ping(c, Num(d))

\* Time passes between two events
Tick ==
    /\ wire.now < StartTime + MaxTicks * TickMs
    /\ wire' = [wire EXCEPT !.now = @ + TickMs]
    /\ UNCHANGED <<serverVars, client, net>>

----------------------------------------------------------------------------
\* The offline queue at its capacity: one long stroke is drawn along a path that
\* moves one pixel to the right with each pointer event, while the connection
\* comes and goes.  No emit throws.

\* The points of the stroke that is being drawn, as the local stroke map has them
LocalPoints ==
    LET stroke == MapGet(client.strokes, client.currentStroke)
    IN  IF stroke = None THEN <<>> ELSE stroke[1].points

QueuePath == Len(LocalPoints)

QueuePathInputs == IF QueuePath < MaxPath THEN {[x |-> QueuePath, y |-> 5]} ELSE {}

NextQueue ==
    \/ ClientConnect
    \/ HandleConnect(0)
    \/ HandleDisconnect
    \/ \E c \in QueuePathInputs : client.currentStroke = "" /\ PointerDown(c, 0)
    \/ \E c \in QueuePathInputs : PointerMove(c, 0)

SpecQueue == Init /\ [][NextQueue]_vars

----------------------------------------------------------------------------
\* The sending side of the client: strokes are drawn online and offline, emits
\* throw and the connection comes and goes, all within one instant.  No event
\* is originated once MaxQueued events are queued.

ClientCoords == {[x |-> 10, y |-> 10], [x |-> -1, y |-> 10]}
RequestInputs == {"undo", "redo", "clear"}
ThrowInputs == 0 .. 2

MayOriginate == Len(client.offlineQueue) < MaxQueued
MayStart == client.localIds < MaxStrokes
MayExtend == Len(LocalPoints) <= MaxPoints

NextReplay ==
    \/ ClientConnect
    \/ \E t \in ThrowInputs : HandleConnect(t)
    \/ HandleDisconnect
    \/ \E c \in ClientCoords, t \in ThrowInputs :
            MayOriginate /\ MayStart /\ PointerDown(c, t)
    \/ \E c \in ClientCoords, t \in ThrowInputs :
            MayOriginate /\ MayExtend /\ PointerMove(c, t)
    \/ \E t \in ThrowInputs : MayOriginate /\ PointerUp(t)

SpecReplay == Init /\ [][NextReplay]_vars

----------------------------------------------------------------------------
\* The cursor throttle: the pointer moves over the canvas of a connected client
\* while time passes, with and without the button held.  No emit throws.

ThrottleCoords == {[x |-> 10, y |-> 10]}

NextThrottle ==
    \/ ClientConnect
    \/ HandleConnect(0)
    \/ \E c \in ThrottleCoords : client.connected /\ MayStart /\ PointerDown(c, 0)
    \/ \E c \in ThrottleCoords : MayExtend /\ PointerMove(c, 0)
    \/ client.connected /\ PointerUp(0)
    \/ Tick

SpecThrottle == Init /\ [][NextThrottle]_vars

----------------------------------------------------------------------------
\* Properties of the stroke store

Range(seq) == {seq[i] : i \in DOMAIN seq}
NoDuplicates(seq) == \A i, j \in DOMAIN seq : seq[i] = seq[j] => i = j

\* The store that the last handler's operation left
Post == drawingStates[last.room]

\* C1: in every reachable state of a room's store no stroke id is both in the
\* completed collection strokes and in the in-progress collection currentStrokes.
C1_StrokesDisjointFromActive ==
    \A r \in DOMAIN drawingStates :
        MapKeys(drawingStates[r].strokes) \cap MapKeys(drawingStates[r].currentStrokes) = {}

\* C2: in every reachable state a stroke id appears in at most one of history
\* and undoneStrokes (the redo stack), never in both.
C2_HistoryDisjointFromRedo ==
    \A r \in DOMAIN drawingStates :
        Range(drawingStates[r].history) \cap Range(drawingStates[r].undoneStrokes) = {}

\* C3: a stroke id is never reused for a different logical stroke: history holds
\* each id at most once, and a draw-start carrying the id of a stroke that is
\* already completed or active does not create a second stroke under that id
\* (it leaves the store as it was).
C3_StrokeIdNeverReused ==
    /\ \A r \in DOMAIN drawingStates : NoDuplicates(drawingStates[r].history)
    /\ (/\ last.op = "startStroke"
        /\ \/ MapHas(last.pre.strokes, last.arg)
           \/ MapHas(last.pre.currentStrokes, last.arg))
       => Post = last.pre

\* C4: startStroke with a stroke id that is already in currentStrokes is a no-op:
\* the active entry keeps its owner, style and points, and no collection changes.
C4_StartOfActiveIdIsNoOp ==
    (last.op = "startStroke" /\ MapHas(last.pre.currentStrokes, last.arg))
    => Post = last.pre

\* C5: endStroke(id) on an active id removes it from currentStrokes, adds it to
\* strokes, appends id at the tail of history and leaves undoneStrokes empty;
\* endStroke(id) on an id that is not active changes none of the four collections.
C5_EndStroke ==
    last.op = "endStroke" =>
        LET id == last.arg
            pre == last.pre
            active == MapGet(pre.currentStrokes, id)
        IN  IF active # None
            THEN /\ Post.currentStrokes = MapDelete(pre.currentStrokes, id)
                 /\ ~MapHas(Post.currentStrokes, id)
                 /\ MapGet(Post.strokes, id) = Some([active[1] EXCEPT !.ended = TRUE])
                 /\ MapKeys(Post.strokes) = MapKeys(pre.strokes) \cup {id}
                 /\ Post.history = Append(pre.history, id)
                 /\ Post.undoneStrokes = <<>>
            ELSE Post = pre

C5_Witness ==
    /\ last.op = "endStroke"
    /\ MapHas(last.pre.currentStrokes, last.arg)
    /\ last.pre.undoneStrokes # <<>>
    /\ last.pre.history # <<>>

\* C6, as claimed: immediately after every endStroke(id) call, for any id and any
\* prior state, undoneStrokes (the redo stack) is empty.
C6_EndStrokeAlwaysEmptiesRedo ==
    last.op = "endStroke" => Post.undoneStrokes = <<>>

\* C6, amended: after endStroke(id) on an id that is in currentStrokes the redo
\* stack is empty; endStroke(id) on an id that is not active leaves the redo stack
\* as it was.
C6_EndStrokeOfActiveEmptiesRedo ==
    last.op = "endStroke" =>
        Post.undoneStrokes =
            IF MapHas(last.pre.currentStrokes, last.arg) THEN <<>> ELSE last.pre.undoneStrokes

C6_Witness ==
    /\ last.op = "endStroke"
    /\ ~MapHas(last.pre.currentStrokes, last.arg)
    /\ last.pre.undoneStrokes # <<>>
    /\ Post.undoneStrokes # <<>>

\* C7: undo() on a store whose history is empty returns null (nothing to undo) and
\* leaves strokes, currentStrokes, history and undoneStrokes unchanged.
C7_UndoOnEmptyHistory ==
    (last.op = "undo" /\ last.pre.history = <<>>)
    => (last.ret = None /\ Post = last.pre)

C7_Witness ==
    /\ last.op = "undo"
    /\ last.pre.history = <<>>
    /\ last.pre.undoneStrokes # <<>>
    /\ last.ret = None

\* C8: undo() on a store whose history is non-empty removes exactly the tail id of
\* history, pushes that id onto the tail of undoneStrokes and returns the stroke
\* with that id; the remaining prefix of history is unchanged.
C8_UndoPopsTail ==
    (last.op = "undo" /\ last.pre.history # <<>>) =>
        LET pre == last.pre
            n == Len(pre.history)
            id == pre.history[n]
        IN  /\ Post.history = SubSeq(pre.history, 1, n - 1)
            /\ Post.undoneStrokes = Append(pre.undoneStrokes, id)
            /\ last.ret # None
            /\ last.ret[1].id = id
            /\ last.ret = MapGet(pre.strokes, id)

C8_Witness ==
    /\ last.op = "undo"
    /\ Len(last.pre.history) >= 2
    /\ last.pre.history[1] # last.pre.history[2]
    /\ last.ret # None

\* C9: redo() on a store whose undoneStrokes is non-empty removes exactly its tail
\* id, pushes that id onto the tail of history and returns the full stroke with
\* that id, so successive redos restore strokes in the reverse order of the undos.
C9_RedoPopsTail ==
    (last.op = "redo" /\ last.pre.undoneStrokes # <<>>) =>
        LET pre == last.pre
            n == Len(pre.undoneStrokes)
            id == pre.undoneStrokes[n]
        IN  /\ Post.undoneStrokes = SubSeq(pre.undoneStrokes, 1, n - 1)
            /\ Post.history = Append(pre.history, id)
            /\ last.ret # None
            /\ last.ret[1].id = id
            /\ last.ret = MapGet(pre.strokes, id)

C9_Witness ==
    /\ last.op = "redo"
    /\ Len(last.pre.undoneStrokes) >= 2
    /\ last.pre.undoneStrokes[1] # last.pre.undoneStrokes[2]
    /\ last.ret # None

\* C10: round trip: from a state with non-empty history, undo() immediately
\* followed by redo() puts the same stroke id back at the tail of history, and
\* history, undoneStrokes, strokes and currentStrokes are what they were before
\* the undo.
C10_UndoRedoRoundTrip ==
    (roundTrip.phase = "undo-redo" /\ roundTrip.before.history # <<>>) =>
        LET before == roundTrip.before
            after == drawingStates[roundTrip.room]
        IN  /\ after.history # <<>>
            /\ after.history[Len(after.history)] = before.history[Len(before.history)]
            /\ after = before

C10_Witness ==
    /\ roundTrip.phase = "undo-redo"
    /\ Len(roundTrip.before.history) >= 2
    /\ roundTrip.before.currentStrokes # <<>>
    /\ last.op = "redo"
    /\ last.ret # None

\* The clear handler of socket c, which is in a room that has a store, runs in
\* this step
ClearStep(c) ==
    /\ HasRoom(c)
    /\ currentRoom[c][1] \in DOMAIN drawingStates
    /\ Clear(c)

\* C11: clear(), the store operation that the clear handler of the gateway runs,
\* leaves strokes, currentStrokes, history and undoneStrokes all empty in one
\* step, whatever the store held; so an undo or a redo right after it finds
\* nothing, and a draw-end for a stroke that was active before the clear appends
\* nothing to history.
C11_ClearEmptiesStore ==
    [][\A c \in Conns :
          ClearStep(c) =>
              LET post == drawingStates'[currentRoom[c][1]]
              IN  /\ post.strokes = <<>>
                  /\ post.currentStrokes = <<>>
                  /\ post.history = <<>>
                  /\ post.undoneStrokes = <<>>
                  /\ undo(post).ret = None
                  /\ redo(post).ret = None
                  /\ \A id \in MapKeys(drawingStates[currentRoom[c][1]].currentStrokes) :
                        endStroke(post, id).ds = post]_vars

\* C12: undo() and redo() leave currentStrokes as it was: a stroke that is in
\* progress keeps its owner and all its points and stays active, and its draw-end
\* then appends it to history with those points.
C12_UndoRedoKeepActiveStrokes ==
    last.op \in {"undo", "redo"} =>
        /\ Post.currentStrokes = last.pre.currentStrokes
        /\ \A id \in MapKeys(last.pre.currentStrokes) :
              LET ended == endStroke(Post, id).ds
              IN  /\ ended.history = Append(Post.history, id)
                  /\ MapGet(ended.strokes, id) =
                        Some([MapGet(last.pre.currentStrokes, id)[1] EXCEPT !.ended = TRUE])

C12_Witness ==
    /\ last.op = "undo"
    /\ last.ret # None
    /\ emitted[1].data.userId = "B"
    /\ \E i \in DOMAIN Post.currentStrokes :
          /\ Post.currentStrokes[i].v.userId = "A"
          /\ Post.currentStrokes[i].k = last.ret[1].id
          /\ Len(Post.currentStrokes[i].v.points) = 2

\* C13: addPoint(id, x, y) with an id that is not in currentStrokes (never started,
\* already ended, or cleared) changes nothing in the store and no error is sent;
\* the completed stroke with that id gets no point.
C13_AddPointToInactiveIsIgnored ==
    (last.op = "addPoint" /\ ~MapHas(last.pre.currentStrokes, last.arg)) =>
        /\ Post = last.pre
        /\ MapGet(Post.strokes, last.arg) = MapGet(last.pre.strokes, last.arg)
        /\ \A i \in DOMAIN emitted : emitted[i].event # "error"

C13_Witness ==
    /\ last.op = "addPoint"
    /\ ~MapHas(last.pre.currentStrokes, last.arg)
    /\ MapHas(last.pre.strokes, last.arg)
    /\ Post = last.pre

\* C14: after N strokes were completed by draw-start, draw-move and draw-end
\* events of the connections in any interleaving, with no undo and no clear,
\* history has length N and lists the stroke ids in the arrival order of their
\* draw-ends, and getHistory() returns the completed strokes in that order.
C14_HistoryInEndOrder ==
    log.on =>
        LET ds == drawingStates[Str("default")]
            returned == getHistory(ds)
        IN  /\ Len(ds.history) = Len(log.ends)
            /\ ds.history = log.ends
            /\ Len(returned) = Len(log.ends)
            /\ \A i \in DOMAIN returned :
                  /\ returned[i].id = log.ends[i]
                  /\ returned[i].ended

C14_Witness ==
    /\ log.on
    /\ log.ends = <<"s2", "s1">>
    /\ drawingStates[Str("default")].history = <<"s2", "s1">>
    /\ getHistory(drawingStates[Str("default")])[1].userId = "A"
    /\ getHistory(drawingStates[Str("default")])[2].userId = "B"

\* C15: the points of a completed stroke are the point of its draw-start followed
\* by the point of each draw-move accepted for its id since, in arrival order;
\* so are the points of a stroke in progress.  A stroke ended after one
\* draw-start and k draw-moves has k+1 points.
C15_PointsAreStartThenMoves ==
    log.on =>
        LET ds == drawingStates[Str("default")]
        IN  /\ MapKeys(ds.strokes) = MapKeys(log.done)
            /\ \A i \in DOMAIN ds.strokes :
                  ds.strokes[i].v.points = MapGet(log.done, ds.strokes[i].k)[1]
            /\ MapKeys(ds.currentStrokes) = MapKeys(log.open)
            /\ \A i \in DOMAIN ds.currentStrokes :
                  ds.currentStrokes[i].v.points = MapGet(log.open, ds.currentStrokes[i].k)[1]

\* The same for the strokes that got one draw-start: while no draw-start has
\* arrived for a stroke in progress, the points are as above
C15_PointsOfStrokesStartedOnce ==
    ~log.restarted => C15_PointsAreStartThenMoves

----------------------------------------------------------------------------
\* Properties of the gateway

\* The connected sockets whose latest join-room named room r
Members(r) == {c \in Conns : conn[c] = "open" /\ currentRoom[c] = Some(r)}

\* The ids in a list of users
UserIds(users) == {users[i].id : i \in DOMAIN users}

C17_LeaveIsBroadcastToOldRoom ==
    (last.op = "join-room" /\ last.arg.t # "undefined" /\ last.arg # last.room) =>
        LET left == getUsers([rooms |-> rooms, colorIndex |-> colorIndex], last.arg)
        IN  /\ last.conn \notin UserIds(left)
            /\ \A d \in Members(last.arg) :
                  \E i \in DOMAIN emitted :
                      /\ emitted[i].event = "users-updated"
                      /\ d \in emitted[i].to
                      /\ emitted[i].data = left

\* C18: a room is evicted when its last member leaves or disconnects: a socket
\* that joins a room id that has no member gets a fresh room, whose snapshot has
\* an empty history and an empty currentState.
C18_EmptyRoomIsEvicted ==
    (last.op = "join-room" /\ last.created) =>
        /\ emitted[1].event = "canvas-state"
        /\ emitted[1].data.history = <<>>
        /\ emitted[1].data.currentState = <<>>

\* What C19 lists as a payload that fails validation
C19_FailsRules(d) ==
    \/ d.x.t # "number" \/ d.x.n < 0 \/ d.x.n > 10000
    \/ d.y.t # "number" \/ d.y.n < 0 \/ d.y.n > 10000
    \/ d.color.t # "string"
    \/ ~(MatchesHexColor(ColorChars(d.color.s)) \/ StartsWithRgb(ColorChars(d.color.s)))
    \/ (d.lineWidth.t = "number" /\ (d.lineWidth.n < 1 \/ d.lineWidth.n > 100))
    \/ d.tool.t # "string" \/ d.tool.s \notin {"brush", "eraser"}

\* C19: a draw-start whose payload fails validation leaves the room's store as it
\* was and yields no message but an error to its sender; a draw-start that is
\* applied and broadcast has a payload that passes every rule.
C19_InvalidDrawStartIsDropped ==
    /\ (last.op = "rejected" /\ last.arg = "draw-start") =>
          /\ drawingStates[last.room] = last.pre
          /\ Len(emitted) <= 1
          /\ \A i \in DOMAIN emitted :
                emitted[i].event = "error" /\ emitted[i].to = {last.conn}
    /\ last.op = "startStroke" =>
          ~C19_FailsRules([x |-> emitted[1].data.x, y |-> emitted[1].data.y,
                           color |-> emitted[1].data.color,
                           lineWidth |-> emitted[1].data.lineWidth,
                           tool |-> emitted[1].data.tool])

C19_Witness ==
    /\ last.op = "rejected"
    /\ last.arg = "draw-start"
    /\ last.data # None
    /\ C19_FailsRules(last.data[1])
    /\ last.pre.history # <<>>
    /\ last.pre.currentStrokes # <<>>
    /\ drawingStates[last.room] = last.pre
    /\ emitted = <<Msg({last.conn}, "error", [message |-> "Invalid drawing data"])>>

\* C20: the gateway never broadcasts invalid data: a draw-start, draw-move or
\* cursor-move message delivered to another socket of the room has x and y that
\* are numbers in [0,10000], and a draw-move message has a non-empty strokeId.
C20_NoInvalidDataBroadcast ==
    \A i \in DOMAIN emitted :
        (emitted[i].event \in {"draw-start", "draw-move", "cursor-move"}
         /\ emitted[i].to # {}) =>
            LET d == emitted[i].data
            IN  /\ "x" \in DOMAIN d /\ "y" \in DOMAIN d
                /\ d.x.t = "number" /\ d.x.n >= 0 /\ d.x.n <= 10000
                /\ d.y.t = "number" /\ d.y.n >= 0 /\ d.y.n <= 10000
                /\ emitted[i].event = "draw-move" => d.strokeId # ""

\* C20 for the drawing events alone, which are validated
C20_NoInvalidDrawingBroadcast ==
    \A i \in DOMAIN emitted :
        (emitted[i].event \in {"draw-start", "draw-move"} /\ emitted[i].to # {}) =>
            LET d == emitted[i].data
            IN  /\ d.x.t = "number" /\ d.x.n >= 0 /\ d.x.n <= 10000
                /\ d.y.t = "number" /\ d.y.n >= 0 /\ d.y.n <= 10000
                /\ emitted[i].event = "draw-move" => d.strokeId # ""

\* The event that the handler of a relayed operation broadcasts
EventOf(op) ==
    CASE op = "startStroke" -> "draw-start"
      [] op = "addPoint" -> "draw-move"
      [] op = "endStroke" -> "draw-end"
      [] OTHER -> op

\* C21: a valid draw-start, draw-move or draw-end, and a cursor-move, from a
\* socket that has joined room r is delivered to every other socket that is in r,
\* tagged with the sender's userId, and neither to the sender nor to a socket of
\* another room.
C21_FanOutToOthersInRoom ==
    last.op \in {"startStroke", "addPoint", "endStroke", "cursor-move"} =>
        /\ currentRoom[last.conn] = Some(last.room)
        /\ Len(emitted) = 1
        /\ emitted[1].event = EventOf(last.op)
        /\ emitted[1].data.userId = last.conn
        /\ emitted[1].to = Members(last.room) \ {last.conn}
        /\ last.conn \notin emitted[1].to
        /\ \A d \in Conns : currentRoom[d] # Some(last.room) => d \notin emitted[1].to

\* C21 for the rooms that are not named by the id of a socket
C21_FanOutInRoomsOfOtherNames ==
    (/\ last.op \in {"startStroke", "addPoint", "endStroke", "cursor-move"}
     /\ last.room \notin {Str(c) : c \in Conns}) =>
        /\ emitted[1].to = Members(last.room) \ {last.conn}
        /\ \A d \in Conns : currentRoom[d] # Some(last.room) => d \notin emitted[1].to

\* A successful undo delivers undo{strokeId} and a successful redo delivers
\* redo{stroke} to every socket of the room, the actor included; Scenario B
C22_UndoRedoReachAllMembers ==
    /\ (last.op = "undo" /\ last.ret # None) =>
          /\ emitted = <<Msg(Members(last.room), "undo",
                             [strokeId |-> last.pre.history[Len(last.pre.history)],
                              userId |-> last.conn])>>
          /\ last.conn \in emitted[1].to
    /\ (last.op = "redo" /\ last.ret # None) =>
          /\ emitted = <<Msg(Members(last.room), "redo",
                             [stroke |-> MapGet(Post.strokes, Post.history[Len(Post.history)])[1],
                              userId |-> last.conn])>>
          /\ last.conn \in emitted[1].to
    /\ (/\ last.op = "undo"
        /\ last.pre.history = <<"s1">>
        /\ last.pre.undoneStrokes = <<>>) =>
          /\ emitted[1].event = "undo"
          /\ emitted[1].data.strokeId = "s1"
          /\ Post.history = <<>>
          /\ Post.undoneStrokes = <<"s1">>

\* C22: undo, redo and clear act on the room and are broadcast to all sockets of
\* the room, the actor included: a successful undo delivers undo{strokeId}, a
\* successful redo delivers redo{stroke} and a clear delivers clear to every
\* member.  When A completed s1 and B sends undo, A and B receive
\* undo{strokeId: s1}, history becomes empty and undoneStrokes becomes [s1].
C22_GlobalOpsReachAllMembers ==
    [][/\ C22_UndoRedoReachAllMembers'
       /\ \A c \in Conns :
             ClearStep(c) =>
                 emitted' = <<Msg(Members(currentRoom[c][1]), "clear", [userId |-> c])>>]_vars

\* C23: when a socket that has joined room r disconnects, it is removed from the
\* members of r and every remaining member of r is sent users-updated with a list
\* that does not contain it; a socket whose disconnect was handled is in no
\* room's member list.
C23_DisconnectUpdatesMembers ==
    /\ (last.op = "disconnect" /\ last.room.t # "undefined") =>
          LET users == getUsers([rooms |-> rooms, colorIndex |-> colorIndex], last.room)
          IN  /\ last.conn \notin UserIds(users)
              /\ \A d \in Members(last.room) :
                    \E i \in DOMAIN emitted :
                        /\ emitted[i].event = "users-updated"
                        /\ d \in emitted[i].to
                        /\ emitted[i].data = users
                        /\ last.conn \notin UserIds(emitted[i].data)
              /\ \A i \in DOMAIN emitted : last.conn \notin emitted[i].to
    /\ \A c \in Conns : conn[c] = "closed" =>
          \A r \in DOMAIN rooms : c \notin MapKeys(rooms[r])

\* C24: an undo received when the room's history is empty, and a redo received
\* when undoneStrokes is empty, leaves the store as it was, sends undo-failed
\* (redo-failed) to the requesting socket alone and delivers no undo or redo
\* message to any socket.
C24_FailedUndoRedoToRequesterOnly ==
    /\ (last.op = "undo" /\ last.pre.history = <<>>) =>
          /\ Post = last.pre
          /\ emitted = <<Msg({last.conn}, "undo-failed", [message |-> "Nothing to undo"])>>
    /\ (last.op = "redo" /\ last.pre.undoneStrokes = <<>>) =>
          /\ Post = last.pre
          /\ emitted = <<Msg({last.conn}, "redo-failed", [message |-> "Nothing to redo"])>>
    /\ (last.op \in {"undo", "redo"} /\ last.ret = None) =>
          \A i \in DOMAIN emitted : emitted[i].event \notin {"undo", "redo"}

C24_Witness ==
    /\ last.op = "redo"
    /\ last.conn = "B"
    /\ last.pre.undoneStrokes = <<>>
    /\ last.pre.history # <<>>
    /\ last.pre.currentStrokes # <<>>
    /\ Members(last.room) = {"A", "B"}
    /\ emitted = <<Msg({"B"}, "redo-failed", [message |-> "Nothing to redo"])>>
    /\ Post = last.pre

----------------------------------------------------------------------------
\* Properties of the sending side of the client

DrawOps == {"startDrawing", "drawMove", "endDrawing"}

\* C25: the offline queue of the client never holds more than maxQueueSize (100)
\* entries, and an event that is queued while the queue is full removes exactly
\* the oldest entry and is appended at the tail, the entries in between keeping
\* their order.
C25_OfflineQueueDropsOldest ==
    /\ Len(client.offlineQueue) <= maxQueueSize
    /\ (/\ wire.op \in DrawOps
        /\ wire.pre.socket
        /\ ~wire.pre.connected
        /\ Len(wire.pre.offlineQueue) >= maxQueueSize)
       => client.offlineQueue = Append(Tail(wire.pre.offlineQueue), wire.arg[1])

C25_Witness ==
    /\ wire.op = "drawMove"
    /\ ~wire.pre.connected
    /\ Len(wire.pre.offlineQueue) = maxQueueSize
    /\ Len(client.offlineQueue) = maxQueueSize
    /\ client.offlineQueue[1] = wire.pre.offlineQueue[2]
    /\ client.offlineQueue[1] # wire.pre.offlineQueue[1]
    /\ client.offlineQueue[maxQueueSize] = wire.arg[1]

\* A queue entry and an emitted message, reduced to the event they stand for
EntryEvent(entry) ==
    [event |-> entry.type, strokeId |-> entry.strokeId, coords |-> entry.coords]

MessageEvent(msg) ==
    CASE msg.event \in {"draw-start", "draw-move"} ->
            [event |-> msg.event, strokeId |-> msg.data.strokeId,
             coords |-> Some([x |-> msg.data.x, y |-> msg.data.y])]
      [] msg.event = "draw-end" ->
            [event |-> msg.event, strokeId |-> msg.data.strokeId, coords |-> None]
      [] msg.event = "cursor-move" ->
            [event |-> msg.event, strokeId |-> "",
             coords |-> Some([x |-> msg.data.x, y |-> msg.data.y])]
      [] OTHER -> [event |-> msg.event, strokeId |-> "", coords |-> None]

\* The drawing and cursor events among the messages of a run, in order
RECURSIVE SentEvents(_)
SentEvents(out) ==
    IF out = <<>> THEN <<>>
    ELSE IF Head(out).event \in {"draw-start", "draw-move", "draw-end", "cursor-move"}
         THEN <<MessageEvent(Head(out))>> \o SentEvents(Tail(out))
         ELSE SentEvents(Tail(out))

RECURSIVE WithoutCursor(_)
WithoutCursor(events) ==
    IF events = <<>> THEN <<>>
    ELSE IF Head(events).event = "cursor-move" THEN WithoutCursor(Tail(events))
         ELSE <<Head(events)>> \o WithoutCursor(Tail(events))

QueuedEvents(queue) == [i \in DOMAIN queue |-> EntryEvent(queue[i])]

\* C26: when the connection returns with e1..ek in the offline queue and no emit
\* throws, the drawing and cursor events that the reconnect handler sends are
\* exactly e1..ek, in that order, with no other drawing or cursor event of the
\* client among them, and the queue is empty afterwards.
C26_ReplayIsExactlyTheQueue ==
    (wire.op = "handleConnect" /\ wire.failed = <<>>) =>
        /\ SentEvents(wire.out) = QueuedEvents(wire.pre.offlineQueue)
        /\ client.offlineQueue = <<>>

\* The replay of C26 with the cursor events left out: the draw events sent are
\* e1..ek in order, and the queue is empty afterwards.
C26_ReplayDrawEventsInOrder ==
    (wire.op = "handleConnect" /\ wire.failed = <<>>) =>
        /\ WithoutCursor(SentEvents(wire.out)) = QueuedEvents(wire.pre.offlineQueue)
        /\ client.offlineQueue = <<>>

\* C27: the client sends cursor-move at most once per CursorThrottleMs (100 ms)
\* on every path that emits it: a cursor-move is never sent less than 100 ms
\* after the cursor-move before it, and no handler sends two.
C27_CursorMoveThrottled ==
    /\ wire.cursorGap # None => wire.cursorGap[1] >= CursorThrottleMs
    /\ \A i, j \in DOMAIN wire.out :
          (wire.out[i].event = "cursor-move" /\ wire.out[j].event = "cursor-move") => i = j

\* The throttle of C27 on the path of drawMove alone: a cursor-move sent by
\* drawMove, which records its time in lastCursorUpdate, comes more than 100 ms
\* after the one that drawMove sent before.
C27_DrawMovePathThrottled ==
    (/\ wire.op = "drawMove"
     /\ client.lastCursorUpdate # wire.pre.lastCursorUpdate
     /\ wire.pre.lastCursorUpdate # 0)
    => client.lastCursorUpdate - wire.pre.lastCursorUpdate > CursorThrottleMs

\* C28: every draw-start, draw-move and draw-end that the client emits has passed
\* the checks of the gateway: a payload whose x or y is outside [0, 10000] or
\* whose strokeId is empty is never emitted.
C28_OutboundPayloadsValid ==
    \A i \in DOMAIN wire.out :
        /\ wire.out[i].event \in {"draw-start", "draw-move"} =>
              clientValidateDrawingData(wire.out[i].data)
        /\ wire.out[i].event = "draw-end" => wire.out[i].data.strokeId # ""

InQueue(entry) == \E j \in DOMAIN client.offlineQueue : client.offlineQueue[j] = entry

\* C29: no draw event of the client is lost to a send failure: an event whose
\* emit threw, also while the queue was being replayed, and an event originated
\* while the transport was not connected, is in the offline queue when the
\* handler has returned (the queue is far from its capacity here).
C29_FailedSendIsQueued ==
    /\ \A i \in DOMAIN wire.failed : InQueue(wire.failed[i])
    /\ (wire.op \in DrawOps /\ wire.pre.socket /\ ~wire.pre.connected) =>
          InQueue(wire.arg[1])

\* C29 for the live sends alone: an event whose emit threw in startDrawing,
\* drawMove or endDrawing called by the canvas, or that was originated offline,
\* is the last entry of the queue afterwards.
C29_LiveSendFailureIsQueued ==
    (wire.op \in DrawOps /\ wire.pre.socket /\ (wire.failed # <<>> \/ ~wire.pre.connected)) =>
        /\ client.offlineQueue = Append(wire.pre.offlineQueue, wire.arg[1])
        /\ wire.failed \in {<<>>, <<wire.arg[1]>>}

----------------------------------------------------------------------------
\* Further properties of the store and of the gateway

\* C35: every id in history or in undoneStrokes (the redo stack) has an entry in
\* strokes, after any sequence of startStroke, addPoint, endStroke, undo, redo and
\* removeStroke; so undo and redo return null only when their stack is empty, and
\* then leave the store as it was.
C35_StacksReferToStrokes ==
    /\ \A r \in DOMAIN drawingStates :
          \A id \in Range(drawingStates[r].history) \cup Range(drawingStates[r].undoneStrokes) :
              MapHas(drawingStates[r].strokes, id)
    /\ (last.op = "undo" /\ last.ret = None) =>
          (last.pre.history = <<>> /\ Post = last.pre)
    /\ (last.op = "redo" /\ last.ret = None) =>
          (last.pre.undoneStrokes = <<>> /\ Post = last.pre)

StrokeIdsOf(strokeList) == {strokeList[i].id : i \in DOMAIN strokeList}

\* C36 as claimed: the currentState part of a canvas-state snapshot contains
\* exactly the strokes that are in history, and a stroke that has been undone and
\* not redone is not retained in the store's strokes collection.
C36_SnapshotIsExactlyHistory ==
    /\ last.op = "join-room" =>
          StrokeIdsOf(emitted[1].data.currentState) = Range(last.pre.history)
    /\ \A r \in DOMAIN drawingStates :
          MapKeys(drawingStates[r].strokes) = Range(drawingStates[r].history)

\* C36, amended: the currentState part of a canvas-state snapshot contains every
\* stroke of the store's strokes collection, which holds the strokes of history
\* and the undone strokes as well: undo keeps the stroke it returns in strokes,
\* where redo finds it.  The history part contains exactly the strokes that are
\* in history.
C36_SnapshotHoldsHistoryAndUndone ==
    /\ last.op = "join-room" =>
          /\ StrokeIdsOf(emitted[1].data.currentState) = MapKeys(last.pre.strokes)
          /\ StrokeIdsOf(emitted[1].data.history) = Range(last.pre.history)
          /\ Range(last.pre.history) \cup Range(last.pre.undoneStrokes)
                \subseteq StrokeIdsOf(emitted[1].data.currentState)
    /\ (last.op = "undo" /\ last.ret # None) =>
          /\ MapGet(Post.strokes, last.ret[1].id) = last.ret
          /\ Post.strokes = last.pre.strokes

C36_Witness ==
    /\ last.op = "join-room"
    /\ last.conn = "B"
    /\ last.pre.history = <<"s1">>
    /\ last.pre.undoneStrokes = <<"s2">>
    /\ StrokeIdsOf(emitted[1].data.history) = {"s1"}
    /\ StrokeIdsOf(emitted[1].data.currentState) = {"s1", "s2"}

\* C37: only the connection that started a stroke extends or completes it: a
\* draw-move or draw-end of another connection of the room that names an active
\* stroke leaves the store, and with it the stroke's points and its active
\* status, as it was.
C37_OnlyOwnerExtendsStroke ==
    (/\ last.op \in {"addPoint", "endStroke"}
     /\ MapHas(last.pre.currentStrokes, last.arg)
     /\ MapGet(last.pre.currentStrokes, last.arg)[1].userId # last.conn)
    => Post = last.pre

\* C38: a draw-move or draw-end that passes validation but names a stroke id that
\* is not active in the room is a no-op on the store and is not broadcast: no
\* draw-move or draw-end message is delivered to any socket.
C38_InactiveStrokeIsNotBroadcast ==
    (/\ last.op \in {"addPoint", "endStroke"}
     /\ ~MapHas(last.pre.currentStrokes, last.arg))
    => /\ Post = last.pre
       /\ \A i \in DOMAIN emitted :
             emitted[i].event \in {"draw-move", "draw-end"} => emitted[i].to = {}

\* The store's part of C38: such a draw-move or draw-end leaves the store as it
\* was.
C38_InactiveStrokeIsNoOp ==
    (/\ last.op \in {"addPoint", "endStroke"}
     /\ ~MapHas(last.pre.currentStrokes, last.arg))
    => Post = last.pre

----------------------------------------------------------------------------
\* The client with its requests: strokes are drawn online and offline, undo,
\* redo and clear are requested and the connection comes and goes; no emit
\* throws.

NextOffline ==
    \/ ClientConnect
    \/ HandleConnect(0)
    \/ HandleDisconnect
    \/ \E c \in ThrottleCoords : MayOriginate /\ MayStart /\ PointerDown(c, 0)
    \/ \E c \in ThrottleCoords : MayOriginate /\ MayExtend /\ PointerMove(c, 0)
    \/ MayOriginate /\ PointerUp(0)
    \/ \E event \in RequestInputs : ClientRequest(event)

SpecOffline == Init /\ [][NextOffline]_vars

----------------------------------------------------------------------------
\* The client with its tools: strokes are started and ended online and offline,
\* the tool, the colour and the line width are changed and the connection comes
\* and goes; no emit throws.

NextStyle ==
    \/ ClientConnect
    \/ HandleConnect(0)
    \/ HandleDisconnect
    \/ \E c \in ThrottleCoords : MayOriginate /\ MayStart /\ PointerDown(c, 0)
    \/ MayOriginate /\ PointerUp(0)
    \/ \E tool \in {"brush", "eraser"} : SetTool(tool)
    \/ \E color \in {"#000000", "#FF0000"} : SetColor(color)
    \/ \E width \in {5, 10} : SetLineWidth(width)

SpecStyle == Init /\ [][NextStyle]_vars

----------------------------------------------------------------------------
\* Further properties of the client

\* C39: a draw-start that is replayed from the offline queue carries the
\* strokeId, the coordinates, the color, the lineWidth and the tool that were in
\* effect when the stroke was started (those of the stroke in the local stroke
\* map, which holds white as the color of a stroke of the eraser), also when the
\* tool, the color or the width was changed before the reconnection.
C39_ReplayedStartKeepsStyle ==
    wire.op = "handleConnect" =>
        \A i \in DOMAIN wire.out :
            (wire.out[i].event = "draw-start"
             /\ MapHas(wire.pre.strokes, wire.out[i].data.strokeId)) =>
                LET d == wire.out[i].data
                    stroke == MapGet(wire.pre.strokes, d.strokeId)[1]
                IN  /\ stroke.points[1] = [x |-> d.x, y |-> d.y]
                    /\ stroke.tool # "eraser" => d.color = stroke.color
                    /\ d.lineWidth = stroke.lineWidth
                    /\ d.tool = stroke.tool

\* C39 for a draw-start that is sent live: it carries the tool, the color and
\* the lineWidth of the stroke that was just started.
C39_LiveStartHasStyle ==
    (wire.op = "startDrawing" /\ HasEvent(wire.out, "draw-start")) =>
        LET d == wire.out[1].data
            stroke == MapGet(client.strokes, d.strokeId)[1]
        IN  /\ stroke.points = <<[x |-> d.x, y |-> d.y]>>
            /\ stroke.tool # "eraser" => d.color = stroke.color
            /\ d.lineWidth = stroke.lineWidth
            /\ d.tool = stroke.tool

\* C40: undo, redo and clear requested while the client is not connected are
\* dropped: the request sends nothing and leaves the offline queue and the local
\* stroke map (and the rest of the client) as they were; the queue holds only
\* draw-start, draw-move and draw-end, and the replay on reconnection sends no
\* undo, redo or clear.
C40_OfflineRequestsAreDropped ==
    /\ (wire.op \in RequestInputs /\ ~wire.pre.connected) =>
          (client = wire.pre /\ wire.out = <<>>)
    /\ \A i \in DOMAIN client.offlineQueue :
          client.offlineQueue[i].type \in {"draw-start", "draw-move", "draw-end"}
    /\ wire.op = "handleConnect" =>
          \A i \in DOMAIN wire.out : wire.out[i].event \notin RequestInputs

C40_Witness ==
    /\ wire.op = "undo"
    /\ wire.pre.socket
    /\ ~wire.pre.connected
    /\ Len(wire.pre.offlineQueue) = 2
    /\ wire.pre.strokes # <<>>
    /\ client.offlineQueue = wire.pre.offlineQueue
    /\ wire.out = <<>>

----------------------------------------------------------------------------
\* One client and the gateway: the client draws online and offline, requests
\* undo, redo and clear when nothing is in flight, loses its connection and gets
\* a new one, and the messages of both sides are handled in the order they were
\* emitted.

\* No event is originated while MaxInFlight messages of the client are in
\* flight, and none of them is handled while more than MaxInFlight messages to
\* it are
MayEmit == Len(net.up) < MaxInFlight
MayHandle == Len(net.down) <= MaxInFlight
NothingInFlight == net.up = <<>> /\ net.down = <<>>

NextSync ==
    \/ ClientConnect
    \/ \E c \in Conns : Dial(c)
    \/ \E c \in Conns : c = net.dialing /\ Connect(c)
    \/ net.attached # "" /\ HandleConnect(0)
    \/ HandleDisconnect
    \/ \E c \in Conns : c # net.attached /\ Disconnect(c)
    \/ \E c \in ThrottleCoords : MayOriginate /\ MayEmit /\ MayStart /\ PointerDown(c, 0)
    \/ MayOriginate /\ MayEmit /\ PointerUp(0)
    \/ \E event \in RequestInputs : client.connected /\ NothingInFlight /\ ClientRequest(event)
    \/ MayHandle /\ ServerReceive
    \/ ClientReceive

SpecSync == Init /\ [][NextSync]_vars

\* The room of the client is quiescent: no message is in flight, no stroke is
\* in progress on either side, and the client is connected and has joined
Quiescent ==
    /\ client.connected
    /\ net.attached # ""
    /\ net.up = <<>>
    /\ net.down = <<>>
    /\ client.currentStroke = ""
    /\ currentRoom[net.attached] = Some(Str(client.currentRoom))
    /\ drawingStates[Str(client.currentRoom)].currentStrokes = <<>>

\* C33: in a quiescent state the ids of the local stroke map of the client are
\* the ids of the history of the store of its room.
C33_ClientConvergesToHistory ==
    Quiescent =>
        MapKeys(client.strokes) = Range(drawingStates[Str(client.currentRoom)].history)

----------------------------------------------------------------------------
\* A client that joins a room in which another connection draws: connection B
\* joins the default room and draws one stroke, and the client connects as A,
\* joins and handles what the gateway sends it.

JoinStroke == "s2"

\* B draws as a client does: it starts the stroke once, and extends and
\* completes it while it is in progress
JoinStrokeIsNew ==
    \A r \in DOMAIN drawingStates :
        /\ ~MapHas(drawingStates[r].strokes, JoinStroke)
        /\ ~MapHas(drawingStates[r].currentStrokes, JoinStroke)
JoinStrokeInProgress ==
    \E r \in DOMAIN drawingStates : MapHas(drawingStates[r].currentStrokes, JoinStroke)

NextJoin ==
    \/ Connect("B")
    \/ JoinRoom("B", Undefined)
    \/ /\ JoinStrokeIsNew
       /\ DrawStart("B", Payload(Num(10), Num(10), Str("#000000"), Num(5), Str("brush"),
                                 Str(JoinStroke)))
    \/ \E x \in {20, 30} :
          /\ JoinStrokeInProgress
          /\ DrawMove("B", MovePayload(Num(x), Num(20), Str(JoinStroke)))
    \/ JoinStrokeInProgress /\ DrawEnd("B", EndPayload(Str(JoinStroke)))
    \/ ClientConnect
    \/ Dial("A")
    \/ "A" = net.dialing /\ Connect("A")
    \/ net.attached # "" /\ HandleConnect(0)
    \/ ServerReceive
    \/ ClientReceive

SpecJoin == Init /\ [][NextJoin]_vars

\* C34: once the stroke of the other connection is completed and every message
\* is delivered, the client that joined the room holds that stroke, with the
\* points of the completed stroke of the store.
C34_JoinerHoldsCompletedStroke ==
    LET ds == drawingStates[Str(client.currentRoom)]
    IN  (Quiescent /\ JoinStroke \in Range(ds.history)) =>
            /\ MapHas(client.strokes, JoinStroke)
            /\ MapGet(client.strokes, JoinStroke)[1].points =
                   PlainPoints(MapGet(ds.strokes, JoinStroke)[1].points)

\* C34 for a client that joined when the stroke was not in progress and has seen
\* its start, or its completed form in the snapshot: whenever the client holds
\* the stroke in a quiescent state, it holds the points of the store.
C34_HeldStrokeHasServerPoints ==
    LET ds == drawingStates[Str(client.currentRoom)]
    IN  (Quiescent /\ JoinStroke \in Range(ds.history)
                   /\ MapHas(client.strokes, JoinStroke)) =>
            MapGet(client.strokes, JoinStroke)[1].points =
                PlainPoints(MapGet(ds.strokes, JoinStroke)[1].points)

----------------------------------------------------------------------------
\* A client that loses its connection and gets a new one: it draws one stroke,
\* online or offline, its pings are sent, and the gateway and the client handle
\* the messages of each other in order.

NextRejoin ==
    \/ ClientConnect
    \/ \E c \in Conns : Dial(c)
    \/ \E c \in Conns : c = net.dialing /\ Connect(c)
    \/ net.attached # "" /\ HandleConnect(0)
    \/ HandleDisconnect
    \/ \E c \in Conns : c # net.attached /\ Disconnect(c)
    \/ \E c \in ThrottleCoords :
            MayOriginate /\ MayEmit /\ client.localIds < MaxStarts /\ PointerDown(c, 0)
    \/ MayOriginate /\ MayEmit /\ PointerUp(0)
    \/ MayEmit /\ PingTimer
    \/ MayHandle /\ ServerReceive
    \/ ClientReceive

SpecRejoin == Init /\ [][NextRejoin]_vars

\* C31: the handler of 'connect' leaves the client connected with its attempt
\* counter at 0 and its delay at 1000, in the room it had before, with the ping
\* interval set and the offline queue empty; the first message it emits is the
\* join-room for that room and the replayed events follow it.  So every message
\* of the client that is still on its way to the gateway, other than join-room,
\* is handled on a connection that is in the room of the client or comes behind
\* the join-room for it, and a drawing event of the client that the gateway
\* applied was applied to the store of that room.
C31_RejoinBeforeReplay ==
    /\ wire.op = "handleConnect" =>
          /\ client.connected
          /\ client.reconnectAttempts = 0
          /\ client.reconnectDelay = 1000
          /\ client.currentRoom = wire.pre.currentRoom
          /\ client.pingInterval
          /\ client.offlineQueue = <<>>
          /\ wire.out # <<>>
          /\ wire.out[1].event = "join-room"
          /\ wire.out[1].data = wire.pre.currentRoom
          /\ \A i \in 2 .. Len(wire.out) :
                wire.out[i].event \in {"draw-start", "draw-move", "draw-end", "cursor-move"}
    /\ \A i \in DOMAIN net.up :
          net.up[i].event # "join-room" =>
              \/ currentRoom[net.attached] = Some(Str(client.currentRoom))
              \/ \E j \in 1 .. i - 1 :
                    /\ net.up[j].event = "join-room"
                    /\ net.up[j].data = client.currentRoom
    /\ (net.attached # "" /\ last.op \in {"startStroke", "addPoint", "endStroke"}
        /\ last.conn = net.attached) =>
          last.room = Str(client.currentRoom)

\* A reconnection (the second connection of the client) that replayed a queued
\* stroke, all of which the gateway has handled
C31_Witness ==
    /\ wire.op = "handleConnect"
    /\ conn["A"] # "idle" /\ conn["B"] = "open"
    /\ wire.pre.reconnectAttempts = 0
    /\ Len(wire.pre.offlineQueue) = 2
    /\ Len(wire.out) = 3
    /\ net.up = <<>>
    /\ last.op = "endStroke" /\ last.conn = net.attached
    /\ last.room = Str("default")

----------------------------------------------------------------------------
\* Liveness probing: the client connects as A and its ping timer fires, time
\* passes while a ping is on its way, a send of the client fails so that its
\* queue is not empty, and B joins the room and sends pings of its own.

ProbeTimestamp == 7

NextProbe ==
    \/ ClientConnect
    \/ Dial("A")
    \/ "A" = net.dialing /\ Connect("A")
    \/ net.attached # "" /\ HandleConnect(0)
    \/ HandleDisconnect
    \/ \E c \in ThrottleCoords :
            /\ client.connected /\ client.offlineQueue = <<>> /\ client.localIds < MaxStarts
            /\ PointerDown(c, 1)
    \/ MayEmit /\ PingTimer
    \/ MayHandle /\ ServerReceive
    \/ ClientReceive
    \/ HasEvent(net.up, "ping") /\ wire.now < StartTime + MaxLatency * TickMs /\ Tick
    \/ Connect("B")
    \/ currentRoom["B"] = None /\ JoinRoom("B", Undefined)
    \/ Ping("B", Num(ProbeTimestamp))

SpecProbe == Init /\ [][NextProbe]_vars

\* The client handler that ran last was the ping timer or the handler of pong
Probing(w) ==
    \/ w.op = "ping"
    \/ w.op = "receive" /\ w.inbound[1].event = "pong"

\* C32: the ping timer and the handler of pong leave the connected flag, the
\* attempt counter, the delay, the offline queue, the socket and the ping
\* interval of the client as they were, and emit nothing but a ping; the gateway
\* answers a ping with one pong, emitted to the sender only, and leaves the
\* connections, their rooms, the members and the stores as they were.
C32_ProbingIsObservational ==
    [][/\ Probing(wire') =>
            /\ client'.connected = client.connected
            /\ client'.reconnectAttempts = client.reconnectAttempts
            /\ client'.reconnectDelay = client.reconnectDelay
            /\ client'.offlineQueue = client.offlineQueue
            /\ client'.socket = client.socket
            /\ client'.pingInterval = client.pingInterval
            /\ client'.strokes = client.strokes
            /\ \A i \in DOMAIN wire'.out : wire'.out[i].event = "ping"
       /\ last'.op = "ping" =>
            /\ emitted' = <<Msg({last'.conn}, "pong", last'.data)>>
            /\ UNCHANGED <<conn, currentRoom, socketRooms, rooms, colorIndex, drawingStates>>]_vars

\* The client has handled the pong of a ping it sent earlier, with an event in
\* its offline queue and B in its room
C32_Witness ==
    /\ wire.op = "receive"
    /\ wire.inbound[1].event = "pong"
    /\ client.latency > 0
    /\ client.connected
    /\ client.offlineQueue # <<>>
    /\ client.offlineQueue = wire.pre.offlineQueue
    /\ currentRoom["B"] = Some(Str("default"))

====
